---- MODULE Spec2Model ----
(***************************************************************************)
(* Model of the installation core of Windows-Package-Manager:              *)
(*   core/installer.py       InstallationProgress, Installer               *)
(*   core/winget_manager.py  WingetManager.is_available, install_package   *)
(* Python dicts are functions with a string domain; d.get(k, default) is   *)
(* Get(d, k, default).  Python None is None where a str is expected and    *)
(* NoneObj where an object (a dict, an exception, a thread) is expected.   *)
(***************************************************************************)
EXTENDS Integers, Sequences, FiniteSets, TLC

VARIABLES
    progress,       \* a stand-alone InstallationProgress object (unit level)
    n_updates,      \* ghost: number of update() calls made on progress
    call,           \* ghost: the last operation applied at unit level, with its arguments
    update_call,    \* the activation record of an update() on progress made step by step
    summary_call,   \* the activation record of a get_summary() on progress
    search,         \* the activation record of WingetManager.search_packages
    frames,         \* the activation records of WingetManager.install_package, one per caller
    ip_log,         \* ghost: what each install command run of the direct call produced, in order
    current_progress,       \* Installer._current_progress
    installation_thread,    \* Installer._installation_thread: a thread, or NoThread
    threads,                \* the threading.Thread objects made by install_packages
    callers,                \* the foreground callers of install_packages
    retry_attempts          \* config.retry_attempts

trackerVars == <<progress, n_updates, call>>

snapshotVars == <<update_call, summary_call>>

searchVars == <<search>>

facadeVars == <<frames, ip_log>>

installerVars == <<current_progress, installation_thread, threads, callers, retry_attempts>>

vars == <<progress, n_updates, call, update_call, summary_call, search, frames, ip_log,
          current_progress, installation_thread, threads, callers, retry_attempts>>

None == "None"

NoneObj == [is_none |-> TRUE]

-----------------------------------------------------------------------------
(* Bounds *)

\* largest total_packages of a stand-alone tracker
MaxTotal == 2

\* most update() calls applied to a stand-alone tracker
MaxUpdates == 3

\* package ids used as inputs
PackageIds == {"pkgA", "pkgB"}

\* largest retry_count (and config.retry_attempts) tried
MaxRetry == 2

\* most background threads that exist at once
MaxThreads == 2

\* longest package_ids list passed to install_packages
MaxPkgs == 2

\* largest config.retry_attempts of a batch
MaxConfigRetry == 1

\* most search_packages calls made one after another
MaxSearches == 2

\* the background threads
Threads == 1..MaxThreads

\* who can be inside install_package: a background thread, or a direct caller
Owners == 0..MaxThreads

Direct == CHOOSE o \in Owners : o \notin Threads

-----------------------------------------------------------------------------
(* dict helpers *)

\* dict.get(k, default)
Get(d, k, default) == IF k \in DOMAIN d THEN d[k] ELSE default

\* the dict d with d[k] = v stored (overwriting an existing entry)
Put(d, k, v) == [x \in (DOMAIN d) \cup {k} |-> IF x = k THEN v ELSE d[x]]

EmptyDict == [x \in {} |-> None]

-----------------------------------------------------------------------------
(* InstallationProgress *)

\* InstallationProgress.__init__
InstallationProgress(total_packages) ==
    [ total_packages           |-> total_packages,
      completed_packages       |-> 0,
      successful_installations |-> 0,
      failed_installations     |-> 0,
      skipped_installations    |-> 0,
      current_package          |-> "",
      results                  |-> EmptyDict ]

\* a slip: completed is counted only for results that are not skipped
update_skip_uncounted(self, package_id, result) ==
    LET r == [self EXCEPT !.results = Put(self.results, package_id, result)]
    IN  IF Get(result, "success", FALSE)
        THEN [r EXCEPT !.completed_packages = @ + 1,
                       !.successful_installations = @ + 1]
        ELSE IF Get(result, "skipped", FALSE)
        THEN [r EXCEPT !.skipped_installations = @ + 1]
        ELSE [r EXCEPT !.completed_packages = @ + 1,
                       !.failed_installations = @ + 1]

\* a slip: a failure is tested before skipped, so skipped never wins
update_failure_first(self, package_id, result) ==
    LET r == [self EXCEPT !.results = Put(self.results, package_id, result),
                          !.completed_packages = @ + 1]
    IN  IF Get(result, "success", FALSE)
        THEN [r EXCEPT !.successful_installations = @ + 1]
        ELSE IF ~Get(result, "success", FALSE)
        THEN [r EXCEPT !.failed_installations = @ + 1]
        ELSE [r EXCEPT !.skipped_installations = @ + 1]

\* a slip: completed is advanced twice for a successful result
update_double_count(self, package_id, result) ==
    LET r == [self EXCEPT !.results = Put(self.results, package_id, result),
                          !.completed_packages = @ + 1]
    IN  IF Get(result, "success", FALSE)
        THEN [r EXCEPT !.successful_installations = @ + 1,
                       !.completed_packages = @ + 1]
        ELSE IF Get(result, "skipped", FALSE)
        THEN [r EXCEPT !.skipped_installations = @ + 1]
        ELSE [r EXCEPT !.failed_installations = @ + 1]

\* a slip: skipped is tested first, and a result without the key counts as skipped
update_skipped_first(self, package_id, result) ==
    LET r == [self EXCEPT !.results = Put(self.results, package_id, result),
                          !.completed_packages = @ + 1]
    IN  IF Get(result, "skipped", TRUE)
        THEN [r EXCEPT !.skipped_installations = @ + 1]
        ELSE IF Get(result, "success", FALSE)
        THEN [r EXCEPT !.successful_installations = @ + 1]
        ELSE [r EXCEPT !.failed_installations = @ + 1]

\* a slip: a result already stored for the package id is kept
update_first_write_wins(self, package_id, result) ==
    LET r == [self EXCEPT !.results = IF package_id \in DOMAIN @ THEN @
                                      ELSE Put(@, package_id, result),
                          !.completed_packages = @ + 1]
    IN  IF Get(result, "success", FALSE)
        THEN [r EXCEPT !.successful_installations = @ + 1]
        ELSE IF Get(result, "skipped", FALSE)
        THEN [r EXCEPT !.skipped_installations = @ + 1]
        ELSE [r EXCEPT !.failed_installations = @ + 1]

\* InstallationProgress.update (the body under self.lock)
update(self, package_id, result) ==
    LET r == [self EXCEPT !.results = Put(self.results, package_id, result),
                          !.completed_packages = @ + 1]
    IN  IF Get(result, "success", FALSE)
        THEN [r EXCEPT !.successful_installations = @ + 1]
        ELSE IF Get(result, "skipped", FALSE)
        THEN [r EXCEPT !.skipped_installations = @ + 1]
        ELSE [r EXCEPT !.failed_installations = @ + 1]

\* a slip: a tracker of no packages reports no progress
progress_percentage_zero_when_empty(self) ==
    IF self.total_packages = 0 THEN <<0, 1>>
    ELSE <<self.completed_packages * 100, self.total_packages>>

\* InstallationProgress.progress_percentage. The float is held as the fraction
\* <<numerator, denominator>> it is computed from: 100.0 is <<100, 1>>, and
\* (completed / total) * 100 is <<completed * 100, total>>
progress_percentage(self) ==
    IF self.total_packages = 0 THEN <<100, 1>>
    ELSE <<self.completed_packages * 100, self.total_packages>>

\* the fraction q is the number n
IsNumber(q, n) == q[2] # 0 /\ q[1] = n * q[2]

\* InstallationProgress.get_summary, without the keys that hold floats
\* (progress_percentage, elapsed_time)
get_summary(self) ==
    [ total      |-> self.total_packages,
      completed  |-> self.completed_packages,
      successful |-> self.successful_installations,
      failed     |-> self.failed_installations,
      skipped    |-> self.skipped_installations,
      results    |-> self.results ]

\* no update() is being made step by step
IdleUpdate == [pc |-> "idle", package_id |-> None, result |-> NoneObj]

\* no get_summary() is in progress; value is the dict display built so far
IdleSummary == [pc |-> 0, value |-> EmptyDict, returned |-> FALSE]

\* no search_packages() is in progress
IdleSearch ==
    [ pc |-> "idle", calls |-> 0, query |-> "", version |-> NoneObj, cmd |-> "",
      ran |-> FALSE, result |-> NoneObj, out |-> NoneObj ]

\* no call is in progress on the stand-alone tracker or on search_packages
CallsIdle ==
    /\ update_call = IdleUpdate
    /\ summary_call = IdleSummary
    /\ search = IdleSearch

\* no stand-alone tracker is in use
TrackerIdle ==
    /\ progress = None
    /\ n_updates = 0
    /\ call = [op |-> "init"]
    /\ CallsIdle

-----------------------------------------------------------------------------
(* str helpers: a Python str is a TLA+ string; TLC applies Len, SubSeq and \o to it *)

UpperCase == "ABCDEFGHIJKLMNOPQRSTUVWXYZ"
LowerCase == "abcdefghijklmnopqrstuvwxyz"

LowerChar(c) ==
    IF \E i \in 1..26 : SubSeq(UpperCase, i, i) = c
    THEN LET i == CHOOSE j \in 1..26 : SubSeq(UpperCase, j, j) = c
         IN  SubSeq(LowerCase, i, i)
    ELSE c

RECURSIVE lower(_)
\* str.lower()
lower(s) ==
    IF Len(s) = 0 THEN ""
    ELSE LowerChar(SubSeq(s, 1, 1)) \o lower(SubSeq(s, 2, Len(s)))

\* `needle in hay` for two strs
Contains(hay, needle) ==
    \E i \in 1..(Len(hay) - Len(needle) + 1) :
        SubSeq(hay, i, i + Len(needle) - 1) = needle

RECURSIVE JoinSpace(_)
\* " ".join(words)
JoinSpace(words) ==
    IF Len(words) = 0 THEN ""
    ELSE IF Len(words) = 1 THEN words[1]
    ELSE words[1] \o " " \o JoinSpace(Tail(words))

-----------------------------------------------------------------------------
(* WingetManager.parse_search_output and the str methods it uses.  A Python    *)
(* index is 0-based, SubSeq is 1-based.                                        *)

\* the characters str.strip() removes that occur in the outputs of the model
Whitespace == {" ", "\t", "\r", "\n"}

Min(a, b) == IF a < b THEN a ELSE b
Max(a, b) == IF a > b THEN a ELSE b

\* a slice bound as Python clamps it: a negative one counts from the end
SliceBound(s, i) == IF i < 0 THEN Max(Len(s) + i, 0) ELSE Min(i, Len(s))

\* s[lo:hi]
Slice(s, lo, hi) == SubSeq(s, SliceBound(s, lo) + 1, SliceBound(s, hi))

\* s[lo:]
SliceFrom(s, lo) == Slice(s, lo, Len(s))

\* s.find(sub, start): the lowest index at or after start where sub occurs, or -1
find(s, sub, start) ==
    LET from == SliceBound(s, start)
        hits == { i \in from..(Len(s) - Len(sub)) : SubSeq(s, i + 1, i + Len(sub)) = sub }
    IN  IF hits = {} THEN -1 ELSE CHOOSE i \in hits : \A j \in hits : i <= j

\* s.strip()
strip(s) ==
    LET inked == { i \in 1..Len(s) : SubSeq(s, i, i) \notin Whitespace }
    IN  IF inked = {} THEN ""
        ELSE SubSeq(s, CHOOSE i \in inked : \A j \in inked : i <= j,
                       CHOOSE i \in inked : \A j \in inked : i >= j)

RECURSIVE splitlines(_)
\* output.splitlines(), for outputs whose only line boundary is "\n"
splitlines(s) ==
    IF Len(s) = 0 THEN <<>>
    ELSE LET k == find(s, "\n", 0)
         IN  IF k = -1 THEN <<s>>
             ELSE <<SubSeq(s, 1, k)>> \o splitlines(SubSeq(s, k + 2, Len(s)))

\* `"Name" in line and "Id" in line`
IsHeader(line) == Contains(line, "Name") /\ Contains(line, "Id")

\* next((i for i, line in enumerate(lines) if ...), -1)
header_index(lines) ==
    LET hits == { i \in 0..(Len(lines) - 1) : IsHeader(lines[i + 1]) }
    IN  IF hits = {} THEN -1 ELSE CHOOSE i \in hits : \A j \in hits : i <= j

\* the column offsets read from the header line
Columns(header) ==
    LET name_end      == find(header, "Id", 0)
        id_end        == find(header, "Version", name_end)
        version_end   == IF Contains(header, "Source")
                         THEN find(header, "Source", id_end) ELSE Len(header)
    IN  [ name_end |-> name_end, id_start |-> name_end, version_start |-> id_end,
          source_start |-> version_end ]

\* the fields cut from one data line
Fields(line, c) ==
    [ name    |-> strip(Slice(line, 0, c.name_end)),
      id      |-> strip(Slice(line, c.id_start, c.version_start)),
      version |-> IF c.source_start > c.version_start
                  THEN strip(Slice(line, c.version_start, c.source_start))
                  ELSE strip(SliceFrom(line, c.version_start)),
      source  |-> IF c.source_start < Len(line)
                  THEN strip(SliceFrom(line, c.source_start)) ELSE "" ]

\* a slip: only the header line is skipped, the line after it is parsed
data_start_after_header(header) == header + 1

\* `lines[header_index + 2 :]`: the index of the first data line
data_start(header) == header + 2

RECURSIVE ParseLines(_, _, _)
\* the for loop over data_lines: the records of lines[i:], with i a Python index
ParseLines(lines, i, c) ==
    IF i >= Len(lines) THEN <<>>
    ELSE LET line == lines[i + 1]
             rest == ParseLines(lines, i + 1, c)
         IN  IF strip(line) = "" THEN rest
             ELSE IF Fields(line, c).name # "" /\ Fields(line, c).id # ""
             THEN <<Fields(line, c)>> \o rest
             ELSE rest

\* WingetManager.parse_search_output
parse_search_output(output) ==
    LET lines == splitlines(output)
    IN  IF Len(lines) = 0 THEN <<>>
        ELSE IF header_index(lines) = -1 THEN <<>>
        ELSE ParseLines(lines, data_start(header_index(lines)),
                        Columns(lines[header_index(lines) + 1]))

-----------------------------------------------------------------------------
(* What a subprocess.run call can do *)

Completed(returncode, stdout, stderr) ==
    [kind |-> "completed", returncode |-> returncode, stdout |-> stdout, stderr |-> stderr]

TimeoutExpired == [kind |-> "TimeoutExpired"]

FileNotFoundError == [kind |-> "FileNotFoundError", text |-> "winget"]

OSError == [kind |-> "OSError", text |-> "Access is denied"]

\* `winget --version`
VersionOutcomes ==
    { Completed(0, "v1.9.0", ""),
      Completed(1, "", "Command not found"),
      TimeoutExpired, FileNotFoundError, OSError }

\* (stdout, stderr) of an install that exits non-zero
FailureOutputs ==
    { <<"", "Error 0x8A15">>,
      <<"Installer failed", "notfound">>,
      <<"", "Run as Administrator">>,
      <<"sysadmin only", "">>,
      <<"needs an ELEVATED shell", "">>,
      <<"", "Privilege missing">>,
      <<"Package NOT FOUND", "">>,
      <<"", "id not found">>,
      <<"", "Package already installed">>,
      <<"A newer version already installed", "">>,
      <<"", "Architecture Mismatch">>,
      <<"not found", "ask an admin">>,
      <<"", "not found: package already installed">>,
      <<"package already installed", "">>,
      <<"Architecture mismatch", "needs elevated rights">> }

\* `winget install --id ...`
InstallOutcomes ==
    { Completed(0, "Successfully installed", "") }
    \cup { Completed(1, o[1], o[2]) : o \in FailureOutputs }
    \cup { TimeoutExpired, OSError }

\* one install outcome of each kind
CoreInstallOutcomes ==
    { Completed(0, "Successfully installed", ""),
      Completed(1, "", "Error 0x8A15"),
      Completed(1, "", "Run as Administrator"),
      Completed(1, "Package NOT FOUND", ""),
      Completed(1, "", "Package already installed"),
      TimeoutExpired, OSError }

\* one `winget --version` outcome of each kind
CoreVersionOutcomes ==
    { Completed(0, "v1.9.0", ""), Completed(1, "", "Command not found"), TimeoutExpired }

\* config.winget_timeout, as it prints
WingetTimeoutText == "300"

-----------------------------------------------------------------------------
(* core/exceptions.py *)

WingetNotAvailableError(message) ==
    [type |-> "WingetNotAvailableError", message |-> message]

DefaultNotAvailable == WingetNotAvailableError("Winget is not available on this system")

WingetExecutionError(message, command) ==
    [type |-> "WingetExecutionError", message |-> message, command |-> command]

AdminPrivilegesRequiredError(message) ==
    [type |-> "AdminPrivilegesRequiredError", message |-> message]

PackageNotFoundError(package_id) ==
    [type |-> "PackageNotFoundError",
     message |-> "Package '" \o package_id \o "' not found",
     package_id |-> package_id]

InstallationFailedError(package_id, reason) ==
    [type |-> "InstallationFailedError",
     message |-> "Installation of '" \o package_id \o "' failed: " \o reason,
     package_id |-> package_id, reason |-> reason]

Return(value) == [kind |-> "return", value |-> value]
Raise(exc) == [kind |-> "raise", exc |-> exc]

-----------------------------------------------------------------------------
(* WingetManager.is_available *)

\* a slip: any exit code of `winget --version` counts as available
is_available_any_exit(outcome) ==
    CASE outcome.kind = "completed" -> Return(TRUE)
      [] outcome.kind = "TimeoutExpired" ->
            Raise(WingetNotAvailableError("Winget availability check timed out"))
      [] outcome.kind = "FileNotFoundError" ->
            Raise(WingetNotAvailableError("Winget executable not found"))
      [] OTHER -> Raise(WingetNotAvailableError("Unexpected error: " \o outcome.text))

is_available(outcome) ==
    CASE outcome.kind = "completed" -> Return(outcome.returncode = 0)
      [] outcome.kind = "TimeoutExpired" ->
            Raise(WingetNotAvailableError("Winget availability check timed out"))
      [] outcome.kind = "FileNotFoundError" ->
            Raise(WingetNotAvailableError("Winget executable not found"))
      [] OTHER -> Raise(WingetNotAvailableError("Unexpected error: " \o outcome.text))

-----------------------------------------------------------------------------
(* WingetManager.install_package *)

\* " ".join(cmd) for the cmd list the code builds
JoinedCmd(package_id, silent) ==
    JoinSpace(<<"winget", "install", "--id", package_id, "--exact", "--disable-interactivity">>
              \o IF silent
                 THEN <<"--silent", "--accept-package-agreements", "--accept-source-agreements">>
                 ELSE <<>>)

\* JoinedCmd, tabulated over the inputs of the model (TLC evaluates the table once)
CommandTable == [package_id \in PackageIds, silent \in BOOLEAN |-> JoinedCmd(package_id, silent)]

command(package_id, silent) == CommandTable[package_id, silent]

\* a slip: attempts holds the index of the attempt, not the number of attempts
LastResult_attempt_index(outcome, cmd, attempt) ==
    [ success     |-> outcome.returncode = 0,
      stdout      |-> outcome.stdout,
      stderr      |-> outcome.stderr,
      return_code |-> outcome.returncode,
      command     |-> cmd,
      attempts    |-> attempt ]

\* the dict built after a run that completed
LastResult(outcome, cmd, attempt) ==
    [ success     |-> outcome.returncode = 0,
      stdout      |-> outcome.stdout,
      stderr      |-> outcome.stderr,
      return_code |-> outcome.returncode,
      command     |-> cmd,
      attempts    |-> attempt + 1 ]

AdminTerms == {"administrator", "admin", "elevated", "privilege"}

permanent_errors ==
    {"package already installed", "newer version already installed", "architecture mismatch"}

\* the texts the install command prints in the model
Texts == UNION { {o.stdout, o.stderr} : o \in { x \in InstallOutcomes : x.kind = "completed" } }

\* `term in text.lower()`, tabulated over the texts of the model (TLC evaluates the table once)
TermInLower ==
    [text \in Texts, term \in AdminTerms \cup {"not found"} \cup permanent_errors |->
        Contains(lower(text), term)]

\* any(term in stderr_lower or term in stdout_lower for term in [...])
AnyTermIn(terms, stdout, stderr) ==
    \E term \in terms : TermInLower[stderr, term] \/ TermInLower[stdout, term]

\* a slip: the permanent-error phrases are not looked for
classify_no_permanent(last_result) ==
    IF last_result.return_code = 0 THEN "success"
    ELSE IF AnyTermIn(AdminTerms, last_result.stdout, last_result.stderr) THEN "admin"
    ELSE IF AnyTermIn({"not found"}, last_result.stdout, last_result.stderr) THEN "not_found"
    ELSE "retry"

\* a slip: the permanent-error phrases are looked for before "not found"
classify_permanent_first(last_result) ==
    IF last_result.return_code = 0 THEN "success"
    ELSE IF AnyTermIn(AdminTerms, last_result.stdout, last_result.stderr) THEN "admin"
    ELSE IF AnyTermIn(permanent_errors, last_result.stdout, last_result.stderr) THEN "permanent"
    ELSE IF AnyTermIn({"not found"}, last_result.stdout, last_result.stderr) THEN "not_found"
    ELSE "retry"

\* what the body of the try does with a completed run
classify(last_result) ==
    IF last_result.return_code = 0 THEN "success"
    ELSE IF AnyTermIn(AdminTerms, last_result.stdout, last_result.stderr) THEN "admin"
    ELSE IF AnyTermIn({"not found"}, last_result.stdout, last_result.stderr) THEN "not_found"
    ELSE IF AnyTermIn(permanent_errors, last_result.stdout, last_result.stderr) THEN "permanent"
    ELSE "retry"

\* a slip: the loop has no end
in_range_always(attempt, retry_count) == TRUE

\* a slip: range(retry_count) instead of range(retry_count + 1)
in_range_short(attempt, retry_count) == attempt < retry_count

\* attempt in range(retry_count + 1)
in_range(attempt, retry_count) == attempt < retry_count + 1

\* a slip: a handler never retries
retries_left_never(attempt, retry_count) == FALSE

\* `if attempt < retry_count` of the two except clauses
retries_left(attempt, retry_count) == attempt < retry_count

\* a slip: only WingetNotAvailableError is re-raised
reraised_no_admin(e) == e.type \in {"WingetNotAvailableError"}

\* isinstance(e, (WingetNotAvailableError, AdminPrivilegesRequiredError))
reraised(e) == e.type \in {"WingetNotAvailableError", "AdminPrivilegesRequiredError"}

\* no call in progress; a local that is not bound yet holds a default of its type
IdleFrame ==
    [ pc |-> "idle", package_id |-> None, silent |-> FALSE, retry_count |-> 0,
      available |-> None, attempt |-> 0, last_result |-> NoneObj, result |-> NoneObj,
      e |-> NoneObj, out |-> NoneObj, runs |-> 0, sleeps |-> <<>>, version |-> NoneObj ]

\* the frame after `return`/`raise` left the function: its locals are gone
Leave(f, out) ==
    [ IdleFrame EXCEPT !.pc = "done", !.package_id = f.package_id, !.silent = f.silent,
                       !.retry_count = f.retry_count, !.available = f.available,
                       !.out = out, !.runs = f.runs, !.sleeps = f.sleeps,
                       !.version = f.version ]

\* a slip: `break` where the code has `continue`
NextAttempt_breaks(f) == [f EXCEPT !.pc = "after_loop", !.e = NoneObj]

\* `continue`, or the end of the loop body: the next value of range()
NextAttempt(f) == [f EXCEPT !.pc = "loop", !.attempt = @ + 1, !.e = NoneObj]

\* entry, with retry_count already defaulted from config.retry_attempts
IpEnter(o, package_id, silent, retry_count) ==
    /\ frames[o].pc = "idle"
    /\ frames' = [frames EXCEPT ![o] =
          [IdleFrame EXCEPT !.pc = "is_available", !.package_id = package_id,
                            !.silent = silent, !.retry_count = retry_count]]

\* the availability check, and `last_result = None` before the loop;
\* Versions is what `winget --version` may do
IpCheckAvailable(o, Versions) ==
    /\ frames[o].pc = "is_available"
    /\ \E v \in Versions :
          LET a == is_available(v)
              f == [frames[o] EXCEPT !.version = v]
          IN  frames' = [frames EXCEPT ![o] =
                 IF a.kind = "raise"
                 THEN Leave([f EXCEPT !.available = "raised"], Raise(a.exc))
                 ELSE IF ~a.value
                 THEN Leave([f EXCEPT !.available = "no"], Raise(DefaultNotAvailable))
                 ELSE [f EXCEPT !.pc = "loop", !.available = "yes", !.attempt = 0]]

\* a slip: the pause before a retry does not grow with the attempt
pause_before_constant(attempt) == IF attempt > 0 THEN <<2>> ELSE <<>>

\* `if attempt > 0: time.sleep(2 * attempt)`: the pauses made, in seconds
pause_before(attempt) == IF attempt > 0 THEN <<2 * attempt>> ELSE <<>>

\* `for attempt in range(retry_count + 1)`, and the sleep before a retry
IpLoop(o) ==
    /\ frames[o].pc = "loop"
    /\ LET f == frames[o]
       IN  frames' = [frames EXCEPT ![o] =
              IF in_range(f.attempt, f.retry_count)
              THEN [f EXCEPT !.pc = "run",
                             !.sleeps = @ \o pause_before(f.attempt)]
              ELSE [f EXCEPT !.pc = "after_loop"]]

\* subprocess.run(cmd, ...) and, when it completes, last_result = {...};
\* Outcomes is what the install command may do
IpRun(o, Outcomes) ==
    /\ frames[o].pc = "run"
    /\ \E outcome \in Outcomes :
          LET f == frames[o]
          IN  frames' = [frames EXCEPT ![o] =
                 IF outcome.kind = "completed"
                 THEN [f EXCEPT !.pc = "classify", !.runs = @ + 1, !.result = outcome,
                                !.last_result =
                                    LastResult(outcome, command(f.package_id, f.silent), f.attempt)]
                 ELSE IF outcome.kind = "TimeoutExpired"
                 THEN [f EXCEPT !.pc = "except_timeout", !.runs = @ + 1, !.result = outcome]
                 ELSE [f EXCEPT !.pc = "except", !.runs = @ + 1, !.result = outcome,
                                !.e = [type |-> outcome.kind, message |-> outcome.text]]]

\* the rest of the try body
IpClassify(o) ==
    /\ frames[o].pc = "classify"
    /\ LET f == frames[o]
           c == classify(f.last_result)
       IN  frames' = [frames EXCEPT ![o] =
              CASE c = "success" -> Leave(f, Return(f.last_result))
                [] c = "admin" ->
                      [f EXCEPT !.pc = "except",
                                !.e = AdminPrivilegesRequiredError(
                                         "Installation of " \o f.package_id
                                         \o " requires administrator privileges")]
                [] c = "not_found" ->
                      [f EXCEPT !.pc = "except", !.e = PackageNotFoundError(f.package_id)]
                [] c = "permanent" -> [f EXCEPT !.pc = "after_loop"]
                [] OTHER -> NextAttempt(f)]

\* except subprocess.TimeoutExpired
IpExceptTimeout(o) ==
    /\ frames[o].pc = "except_timeout"
    /\ LET f == frames[o]
       IN  frames' = [frames EXCEPT ![o] =
              IF retries_left(f.attempt, f.retry_count)
              THEN NextAttempt(f)
              ELSE Leave(f, Raise(WingetExecutionError(
                      "Installation timed out after " \o WingetTimeoutText
                      \o " seconds for package: " \o f.package_id,
                      command(f.package_id, f.silent))))]

\* except Exception as e
IpExcept(o) ==
    /\ frames[o].pc = "except"
    /\ LET f == frames[o]
       IN  frames' = [frames EXCEPT ![o] =
              IF reraised(f.e) THEN Leave(f, Raise(f.e))
              ELSE IF retries_left(f.attempt, f.retry_count) THEN NextAttempt(f)
              ELSE Leave(f, Raise(WingetExecutionError(
                      "Unexpected error: " \o f.e.message,
                      command(f.package_id, f.silent))))]

\* after the loop: "All attempts failed"
IpAfterLoop(o) ==
    /\ frames[o].pc = "after_loop"
    /\ LET f == frames[o]
       IN  frames' = [frames EXCEPT ![o] =
              Leave(f, Raise(InstallationFailedError(
                      f.package_id,
                      IF f.last_result # NoneObj
                      THEN Get(f.last_result, "stderr", "Unknown error")
                      ELSE "No result")))]

-----------------------------------------------------------------------------
(* Installer: its state *)

\* self._installation_thread = None
NoThread == 0

\* the foreground callers
MainCaller == "main"
Callers == {"main", "other"}

\* a thread object that does not exist (yet, or any more)
FreeThread ==
    [ state |-> "free", pc |-> "", launcher |-> None,
      package_ids |-> <<>>, callback |-> FALSE, progress_callback |-> FALSE,
      silent |-> FALSE, stop_on_first_failure |-> FALSE,
      i |-> 0, pkg_id |-> None, result |-> NoneObj,
      attempted |-> <<>>, produced |-> <<>>, callbacks |-> <<>>, progress_calls |-> <<>>,
      ending |-> "", raised |-> FALSE ]

\* a caller that is not inside install_packages
IdleCaller ==
    [ pc |-> "idle", args |-> NoneObj, thread |-> NoThread, last |-> "none",
      after_finished |-> FALSE,
      timeout |-> None, join |-> "", wait |-> "none" ]

\* Installer.__init__, no caller active, no thread
InstallerIdle ==
    /\ current_progress = NoneObj
    /\ installation_thread = NoThread
    /\ threads = [t \in Threads |-> FreeThread]
    /\ callers = [c \in Callers |-> IdleCaller]

-----------------------------------------------------------------------------
(* Unit level: one install_package call made directly *)

InitInstall ==
    /\ TrackerIdle
    /\ InstallerIdle
    /\ retry_attempts = 0
    /\ frames = [o \in Owners |-> IdleFrame]
    /\ ip_log = <<>>

DirectCall ==
    /\ \E package_id \in PackageIds, silent \in BOOLEAN, retry_count \in 0..MaxRetry :
          IpEnter(Direct, package_id, silent, retry_count)
    /\ UNCHANGED <<ip_log, trackerVars, snapshotVars, searchVars, installerVars>>

\* what a run of the install command by the direct call produced is logged
Logged ==
    /\ ip_log' = IF frames'[Direct].runs > frames[Direct].runs
                 THEN Append(ip_log, frames'[Direct].result)
                 ELSE ip_log
    /\ UNCHANGED <<trackerVars, snapshotVars, searchVars, installerVars>>

NextInstall ==
    \/ DirectCall
    \/ IpCheckAvailable(Direct, VersionOutcomes) /\ Logged
    \/ IpLoop(Direct) /\ Logged
    \/ IpRun(Direct, InstallOutcomes) /\ Logged
    \/ IpClassify(Direct) /\ Logged
    \/ IpExceptTimeout(Direct) /\ Logged
    \/ IpExcept(Direct) /\ Logged
    \/ IpAfterLoop(Direct) /\ Logged

SpecInstall == InitInstall /\ [][NextInstall]_vars

\* SpecInstall, with the call going on: every external command returns, raises or
\* hits its timeout
SpecInstallFair == SpecInstall /\ WF_vars(NextInstall)

-----------------------------------------------------------------------------
(* Properties of install_package, checked under SpecInstall *)

NonZeroExit(outcome) == outcome.kind = "completed" /\ outcome.returncode # 0

HasAdminTerm(outcome) == AnyTermIn(AdminTerms, outcome.stdout, outcome.stderr)

HasNotFound(outcome) == AnyTermIn({"not found"}, outcome.stdout, outcome.stderr)

HasPermanentPhrase(outcome) == AnyTermIn(permanent_errors, outcome.stdout, outcome.stderr)

GenericFailure(outcome) ==
    /\ NonZeroExit(outcome)
    /\ ~HasAdminTerm(outcome) /\ ~HasNotFound(outcome) /\ ~HasPermanentPhrase(outcome)

AdminFailure(outcome) == NonZeroExit(outcome) /\ HasAdminTerm(outcome)

NotFoundFailure(outcome) ==
    NonZeroExit(outcome) /\ HasNotFound(outcome) /\ ~HasAdminTerm(outcome)

PermanentFailure(outcome) ==
    /\ NonZeroExit(outcome) /\ HasPermanentPhrase(outcome)
    /\ ~HasAdminTerm(outcome) /\ ~HasNotFound(outcome)

\* the direct call has ended by raising an exception of this type
DirectRaised(type) ==
    /\ frames[Direct].pc = "done"
    /\ frames[Direct].out.kind = "raise"
    /\ frames[Direct].out.exc.type = type

C8_AdminNonRetriable ==
    LET f == frames[Direct]
    IN  \A i \in 1..Len(ip_log) :
           AdminFailure(ip_log[i])
           => /\ i = Len(ip_log)
              /\ f.runs = i
              /\ Len(f.sleeps) = i - 1
              /\ f.pc \in {"classify", "except", "done"}
              /\ f.pc = "done" => DirectRaised("AdminPrivilegesRequiredError")

\* the first attempt needs admin while two retries remain: one run, AdminPrivilegesRequiredError
C8_Witness ==
    /\ frames[Direct].retry_count = 2
    /\ Len(ip_log) = 1
    /\ AdminFailure(ip_log[1])
    /\ frames[Direct].runs = 1
    /\ DirectRaised("AdminPrivilegesRequiredError")

\* C9: Not-found is non-retriable. A run of the install command that exited
\* non-zero with 'not found' (and no admin keyword) in its output is the last run
\* of the call, and the call ends with PackageNotFoundError for that package id.
C9_NotFoundNonRetriable ==
    LET f == frames[Direct]
    IN  \A i \in 1..Len(ip_log) :
           NotFoundFailure(ip_log[i])
           => /\ i = Len(ip_log)
              /\ f.runs = i
              /\ f.pc = "done" => f.out = Raise(PackageNotFoundError(f.package_id))

C11_SuccessEndsLoop ==
    LET f == frames[Direct]
    IN  \A i \in 1..Len(ip_log) :
           (ip_log[i].kind = "completed" /\ ip_log[i].returncode = 0)
           => /\ i = Len(ip_log)
              /\ f.runs = i
              /\ f.pc \in {"classify", "done"}
              /\ f.pc = "done" => /\ f.out.kind = "return"
                                  /\ f.out.value.success
                                  /\ f.out.value.attempts = i
                                  /\ f.out.value.return_code = 0

\* a generic failure, a timeout, then exit code 0: the call returns attempts = 3
C11_Witness ==
    /\ frames[Direct].retry_count = 2
    /\ Len(ip_log) = 3
    /\ GenericFailure(ip_log[1])
    /\ ip_log[2].kind = "TimeoutExpired"
    /\ ip_log[3].kind = "completed" /\ ip_log[3].returncode = 0
    /\ frames[Direct].pc = "done"
    /\ frames[Direct].out.kind = "return"
    /\ frames[Direct].out.value.attempts = 3

\* C12: Timeouts are transient. A run that timed out as attempt index < retry_count
\* does not end the call: another attempt follows. A run that timed out as attempt
\* index = retry_count is the last one, and the call ends with WingetExecutionError.
C12_TimeoutTransient ==
    LET f == frames[Direct]
    IN  \A i \in 1..Len(ip_log) :
           ip_log[i].kind = "TimeoutExpired"
           => IF i - 1 < f.retry_count
              THEN /\ f.pc = "done" => Len(ip_log) > i
                   /\ i = Len(ip_log) => f.pc \in {"except_timeout", "loop", "run"}
              ELSE /\ i = f.retry_count + 1
                   /\ i = Len(ip_log)
                   /\ f.pc \in {"except_timeout", "done"}
                   /\ f.pc = "done" => DirectRaised("WingetExecutionError")

\* retry_count = 1 and two timeouts: two runs, WingetExecutionError
C12_Witness ==
    /\ frames[Direct].retry_count = 1
    /\ Len(ip_log) = 2
    /\ ip_log[1].kind = "TimeoutExpired"
    /\ ip_log[2].kind = "TimeoutExpired"
    /\ frames[Direct].runs = 2
    /\ DirectRaised("WingetExecutionError")

\* `winget --version` did not show winget to be available
VersionFailed(v) == v.kind # "completed" \/ v.returncode # 0

\* C13: Availability fail-fast. When `winget --version` exits non-zero, times out,
\* is not found or fails otherwise, the call has ended with WingetNotAvailableError
\* and the install command was never run, whatever retry_count is.
C13_AvailabilityFailFast ==
    LET f == frames[Direct]
    IN  (f.version # NoneObj /\ VersionFailed(f.version))
        => /\ f.pc = "done"
           /\ DirectRaised("WingetNotAvailableError")
           /\ f.runs = 0
           /\ ip_log = <<>>
           /\ f.sleeps = <<>>

\* retry_count = 2 and `winget --version` exits with 1: WingetNotAvailableError, no run
C13_Witness ==
    /\ frames[Direct].retry_count = 2
    /\ frames[Direct].version = Completed(1, "", "Command not found")
    /\ DirectRaised("WingetNotAvailableError")
    /\ frames[Direct].out.exc = DefaultNotAvailable
    /\ frames[Direct].runs = 0

\* C30: Linear backoff. Within one call, attempt 0 is run with no pause before it,
\* and the attempt with index n > 0 is run right after the n-th pause, which lasts
\* 2*n seconds: when a run is about to start, as many pauses as the attempt's index
\* have been made and as many runs, whatever the earlier runs did.
C30_LinearBackoff ==
    LET f == frames[Direct]
    IN  f.available = "yes"
        => /\ \A j \in 1..Len(f.sleeps) : f.sleeps[j] = 2 * j
           /\ Len(ip_log) = f.runs
           /\ f.runs \in {Len(f.sleeps), Len(f.sleeps) + 1}
           /\ f.pc = "run" => /\ Len(f.sleeps) = f.attempt
                              /\ f.runs = f.attempt
           /\ f.pc = "loop" => /\ f.runs = f.attempt
                               /\ Len(f.sleeps) = IF f.attempt = 0 THEN 0 ELSE f.attempt - 1
           /\ f.pc \in {"classify", "except", "except_timeout"}
                 => f.runs = f.attempt + 1 /\ Len(f.sleeps) = f.attempt

\* a timeout, then an unexpected error, then a generic failure: pauses of 2 and 4
\* seconds were made, one before each retry
C30_Witness ==
    /\ frames[Direct].retry_count = 2
    /\ Len(ip_log) = 3
    /\ ip_log[1].kind = "TimeoutExpired"
    /\ ip_log[2].kind = "OSError"
    /\ GenericFailure(ip_log[3])
    /\ frames[Direct].sleeps = <<2, 4>>
    /\ frames[Direct].runs = 3

\* the run failed in a way that is neither success nor one of the terminal
\* conditions: a generic non-zero exit, a timeout, an error raised by the run
OtherFailure(outcome) == outcome.kind # "completed" \/ GenericFailure(outcome)

\* C33: Within one call only a success, an admin keyword, 'not found' or a
\* permanent-error phrase end the call before retry_count + 1 runs were made; a
\* run that failed otherwise (generic non-zero exit, timeout, error raised by
\* the run) as attempt index < retry_count is followed by another attempt.
C33_OnlyTerminalLeaveEarly ==
    LET f == frames[Direct]
        n == Len(ip_log)
    IN  f.available = "yes"
        => /\ (f.pc = "done" /\ n < f.retry_count + 1)
                 => /\ n >= 1
                    /\ \/ ip_log[n].kind = "completed" /\ ip_log[n].returncode = 0
                       \/ NonZeroExit(ip_log[n]) /\ HasAdminTerm(ip_log[n])
                       \/ NonZeroExit(ip_log[n]) /\ HasNotFound(ip_log[n])
                       \/ NonZeroExit(ip_log[n]) /\ HasPermanentPhrase(ip_log[n])
           /\ \A i \in 1..n :
                 (OtherFailure(ip_log[i]) /\ i - 1 < f.retry_count)
                 => /\ f.pc = "done" => n > i
                    /\ i = n => f.pc \in {"classify", "except", "except_timeout", "loop", "run"}

\* an error raised by the first run is retried, and a permanent error of the
\* second run ends the call while a retry remains
C33_Witness ==
    /\ frames[Direct].retry_count = 2
    /\ Len(ip_log) = 2
    /\ ip_log[1].kind = "OSError"
    /\ PermanentFailure(ip_log[2])
    /\ frames[Direct].pc = "done"

\* C34: When the only install attempt exits non-zero with the output 'package
\* already installed', install_package returns a result record with success
\* false and raises nothing.
C34_PermanentErrorReturns ==
    LET f == frames[Direct]
    IN  (/\ f.pc = "done"
         /\ Len(ip_log) = 1
         /\ ip_log[1] = Completed(1, "package already installed", ""))
        => /\ f.out.kind = "return"
           /\ ~f.out.value.success

\* the exception types install_package may end with
InstallErrors ==
    {"WingetNotAvailableError", "AdminPrivilegesRequiredError", "PackageNotFoundError",
     "WingetExecutionError", "InstallationFailedError"}

C36_ClassificationPrecedence ==
    LET f == frames[Direct]
        n == Len(ip_log)
    IN  (n >= 1 /\ NonZeroExit(ip_log[n]))
        => /\ (HasAdminTerm(ip_log[n]) /\ (HasNotFound(ip_log[n]) \/ HasPermanentPhrase(ip_log[n])))
                 => /\ f.pc \in {"classify", "except", "done"}
                    /\ f.pc = "except" => f.e.type = "AdminPrivilegesRequiredError"
                    /\ f.pc = "done" => DirectRaised("AdminPrivilegesRequiredError")
           /\ (/\ ~HasAdminTerm(ip_log[n])
               /\ HasNotFound(ip_log[n]) /\ HasPermanentPhrase(ip_log[n]))
                 => /\ f.pc # "after_loop"
                    /\ f.pc = "except" => f.e.type = "PackageNotFoundError"
                    /\ f.pc = "done" => ~DirectRaised("InstallationFailedError")

\* 'not found: package already installed' has been classified: PackageNotFoundError
C36_Witness ==
    /\ Len(ip_log) = 1
    /\ ip_log[1] = Completed(1, "", "not found: package already installed")
    /\ frames[Direct].pc = "except"
    /\ frames[Direct].e = PackageNotFoundError(frames[Direct].package_id)

-----------------------------------------------------------------------------
(* Unit level: one tracker driven by arbitrary update() calls *)

\* result dicts with every combination of present/absent success and skipped flags
FlagDicts ==
    { [k \in D |-> IF k = "success" THEN s ELSE sk] :
        D \in SUBSET {"success", "skipped"}, s \in BOOLEAN, sk \in BOOLEAN }

InitTracker ==
    /\ InstallerIdle
    /\ CallsIdle
    /\ retry_attempts = 0
    /\ frames = [o \in Owners |-> IdleFrame]
    /\ ip_log = <<>>
    /\ \E total \in 0..MaxTotal : progress = InstallationProgress(total)
    /\ n_updates = 0
    /\ call = [op |-> "init"]

TrackerUpdate ==
    /\ n_updates < MaxUpdates
    /\ \E package_id \in PackageIds, result \in FlagDicts :
          /\ progress' = update(progress, package_id, result)
          /\ call' = [op |-> "update", package_id |-> package_id, result |-> result]
    /\ n_updates' = n_updates + 1
    /\ UNCHANGED <<snapshotVars, searchVars, facadeVars, installerVars>>

NextTracker == TrackerUpdate

SpecTracker == InitTracker /\ [][NextTracker]_vars

-----------------------------------------------------------------------------
(* Properties of InstallationProgress, checked under SpecTracker *)

\* C4: after every update() call, completed_packages equals
\* successful_installations + failed_installations + skipped_installations.
C4_CompletedIsSum ==
    progress.completed_packages =
        progress.successful_installations + progress.failed_installations
        + progress.skipped_installations

\* three updates, one counted in each of the three counters
C4_Witness ==
    /\ n_updates = 3
    /\ progress.successful_installations = 1
    /\ progress.failed_installations = 1
    /\ progress.skipped_installations = 1

\* C5 as stated: after any sequence of update() calls, completed_packages <= total_packages.
C5_CompletedAtMostTotal ==
    progress.completed_packages <= progress.total_packages

\* C5 amended: after any sequence of at most total_packages update() calls,
\* completed_packages <= total_packages.
C5_CompletedAtMostTotalWithinTotal ==
    n_updates <= progress.total_packages
    => progress.completed_packages <= progress.total_packages

\* a tracker of two packages after its second update
C5_Witness ==
    /\ progress.total_packages = 2
    /\ n_updates = 2
    /\ progress.completed_packages = 2

Flag(result, key) == key \in DOMAIN result /\ result[key]

\* C6: each update(package_id, result) adds 1 to completed_packages and 1 to
\* exactly one of the three counters: successful when result's success flag is set,
\* else skipped when its skipped flag is set, else failed; a missing flag is false.
C6_UpdateCountsOne ==
    [][ n_updates' = n_updates + 1
        => LET result == call'.result
               Delta(field) == progress'[field] - progress[field]
           IN  /\ call'.op = "update"
               /\ Delta("completed_packages") = 1
               /\ Delta("successful_installations") =
                     (IF Flag(result, "success") THEN 1 ELSE 0)
               /\ Delta("skipped_installations") =
                     (IF ~Flag(result, "success") /\ Flag(result, "skipped") THEN 1 ELSE 0)
               /\ Delta("failed_installations") =
                     (IF ~Flag(result, "success") /\ ~Flag(result, "skipped") THEN 1 ELSE 0)
               /\ progress'.total_packages = progress.total_packages ]_vars

\* an update with success false and skipped true has been counted as skipped
C6_Witness ==
    /\ call.op = "update"
    /\ "success" \in DOMAIN call.result /\ ~call.result.success
    /\ Flag(call.result, "skipped")
    /\ progress.skipped_installations = 1
    /\ progress.failed_installations = 0
    /\ progress.completed_packages = 1

\* C26: progress_percentage is 100 when total_packages is 0, with no division by
\* zero, and completed / total * 100 otherwise; so it is 0 right after a tracker
\* of n > 0 packages is constructed and 100 when completed equals total.
C26_ProgressPercentage ==
    LET q         == progress_percentage(progress)
        total     == progress.total_packages
        completed == progress.completed_packages
    IN  /\ q[2] # 0
        /\ total = 0 => IsNumber(q, 100)
        /\ total > 0 => q[1] * total = completed * 100 * q[2]
        /\ (total > 0 /\ n_updates = 0) => IsNumber(q, 0)
        /\ (total > 0 /\ completed = total) => IsNumber(q, 100)

\* a tracker of no packages that has been updated once: 100, nothing divided by 0
C26_Witness ==
    /\ progress.total_packages = 0
    /\ progress.completed_packages = 1
    /\ call.op = "update"
    /\ IsNumber(progress_percentage(progress), 100)

\* C31: Repeated package ids are last-write-wins. Every update stores its result
\* under its package id and leaves the entries of the other ids as they were, so
\* results holds for each id the result of the most recent update for it;
\* completed counts every update, so results has at most completed entries, and
\* exactly completed entries when no id was updated twice.
C31_LastWriteWins ==
    /\ [](/\ progress.completed_packages = n_updates
          /\ Cardinality(DOMAIN progress.results) <= progress.completed_packages)
    /\ [][ n_updates' = n_updates + 1
           => LET id  == call'.package_id
                  old == progress.results
                  new == progress'.results
              IN  /\ new[id] = call'.result
                  /\ DOMAIN new = DOMAIN old \cup {id}
                  /\ \A k \in DOMAIN old \ {id} : new[k] = old[k]
                  /\ (Cardinality(DOMAIN new) = progress'.completed_packages)
                        <=> (/\ Cardinality(DOMAIN old) = progress.completed_packages
                             /\ id \notin DOMAIN old) ]_vars

\* pkgA was updated twice, the second time with a skip: one entry, the skip, and
\* completed is 2
C31_Witness ==
    /\ n_updates = 2
    /\ progress.successful_installations = 1
    /\ progress.skipped_installations = 1
    /\ DOMAIN progress.results = {"pkgA"}
    /\ call.package_id = "pkgA"
    /\ progress.results["pkgA"] = [success |-> FALSE, skipped |-> TRUE]
    /\ progress.completed_packages = 2

-----------------------------------------------------------------------------
(* Unit level: get_summary on the calling thread while update runs on another *)

\* the result dicts update() is called with here: a success, a failure, a skip
SnapshotResults ==
    { [success |-> TRUE], [success |-> FALSE], [success |-> FALSE, skipped |-> TRUE] }

\* the keys of the dict display of get_summary whose values are read from integer
\* fields or from results, in the order the display evaluates them, each with the
\* field it reads (progress_percentage and elapsed_time, floats, come before
\* results and are left out, as in get_summary above)
SummaryKeys ==
    << <<"total", "total_packages">>, <<"completed", "completed_packages">>,
       <<"successful", "successful_installations">>, <<"failed", "failed_installations">>,
       <<"skipped", "skipped_installations">>, <<"results", "results">> >>

InitSnapshot ==
    /\ InstallerIdle
    /\ CallsIdle
    /\ retry_attempts = 0
    /\ frames = [o \in Owners |-> IdleFrame]
    /\ ip_log = <<>>
    /\ \E total \in 0..MaxTotal : progress = InstallationProgress(total)
    /\ n_updates = 0
    /\ call = [op |-> "init"]

\* update(package_id, result) is called and `with self.lock` is entered: there is
\* one updating thread, and get_summary never takes the lock
UpdateCall ==
    /\ update_call.pc = "idle"
    /\ n_updates < MaxUpdates
    /\ \E package_id \in PackageIds, result \in SnapshotResults :
          update_call' = [pc |-> "results", package_id |-> package_id, result |-> result]
    /\ UNCHANGED <<progress, n_updates, call, summary_call>>

\* self.results[package_id] = result
UpdateResults ==
    /\ update_call.pc = "results"
    /\ progress' = [progress EXCEPT
          !.results = Put(@, update_call.package_id, update_call.result)]
    /\ update_call' = [update_call EXCEPT !.pc = "completed"]
    /\ UNCHANGED <<n_updates, call, summary_call>>

\* self.completed_packages += 1
UpdateCompleted ==
    /\ update_call.pc = "completed"
    /\ progress' = [progress EXCEPT !.completed_packages = @ + 1]
    /\ update_call' = [update_call EXCEPT !.pc = "counter"]
    /\ UNCHANGED <<n_updates, call, summary_call>>

\* the if statement that advances one of the three counters; the lock is released
UpdateCounter ==
    /\ update_call.pc = "counter"
    /\ LET result == update_call.result
       IN  progress' =
              IF Get(result, "success", FALSE)
              THEN [progress EXCEPT !.successful_installations = @ + 1]
              ELSE IF Get(result, "skipped", FALSE)
              THEN [progress EXCEPT !.skipped_installations = @ + 1]
              ELSE [progress EXCEPT !.failed_installations = @ + 1]
    /\ call' = [op |-> "update", package_id |-> update_call.package_id,
                result |-> update_call.result]
    /\ n_updates' = n_updates + 1
    /\ update_call' = IdleUpdate
    /\ UNCHANGED summary_call

\* a slip: the summary refers to the tracker's own results dict
results_copy_shared(self) == [object |-> "self.results", items |-> EmptyDict]

\* self.results.copy(): a new dict object holding the items results has now
results_copy(self) == [object |-> "copy", items |-> self.results]

\* the items a dict object of a summary holds now: those of the tracker's dict
\* when it is that object, its own otherwise
Items(d) == IF d.object = "self.results" THEN progress.results ELSE d.items

\* get_summary() is called
SummaryCall ==
    /\ summary_call.pc = 0
    /\ summary_call' = [pc |-> 1, value |-> EmptyDict, returned |-> FALSE]
    /\ UNCHANGED <<progress, n_updates, call, update_call>>

\* the next value of the dict display is read from its field, results is copied;
\* after the last one the dict is returned
SummaryRead ==
    /\ summary_call.pc \in 1..Len(SummaryKeys)
    /\ LET key   == SummaryKeys[summary_call.pc][1]
           field == SummaryKeys[summary_call.pc][2]
           value == Put(summary_call.value, key,
                        IF key = "results" THEN results_copy(progress) ELSE progress[field])
       IN  summary_call' =
              IF summary_call.pc < Len(SummaryKeys)
              THEN [summary_call EXCEPT !.pc = @ + 1, !.value = value]
              ELSE [pc |-> 0, value |-> value, returned |-> TRUE]
    /\ UNCHANGED <<progress, n_updates, call, update_call>>

NextSnapshot ==
    \/ UpdateCall /\ UNCHANGED <<searchVars, facadeVars, installerVars>>
    \/ UpdateResults /\ UNCHANGED <<searchVars, facadeVars, installerVars>>
    \/ UpdateCompleted /\ UNCHANGED <<searchVars, facadeVars, installerVars>>
    \/ UpdateCounter /\ UNCHANGED <<searchVars, facadeVars, installerVars>>
    \/ SummaryCall /\ UNCHANGED <<searchVars, facadeVars, installerVars>>
    \/ SummaryRead /\ UNCHANGED <<searchVars, facadeVars, installerVars>>

SpecSnapshot == InitSnapshot /\ [][NextSnapshot]_vars

\* C24: get_summary is a consistent snapshot: every summary it returns while an
\* update may be running on another thread has completed equal to
\* successful + failed + skipped.
C24_ConsistentSnapshot ==
    summary_call.returned
       => summary_call.value["completed"]
             = summary_call.value["successful"] + summary_call.value["failed"]
               + summary_call.value["skipped"]

\* what a holder of the returned summary reads from it now
SummaryObserved ==
    [ total      |-> summary_call.value["total"],
      completed  |-> summary_call.value["completed"],
      successful |-> summary_call.value["successful"],
      failed     |-> summary_call.value["failed"],
      skipped    |-> summary_call.value["skipped"],
      results    |-> Items(summary_call.value["results"]) ]

\* C32: Snapshot isolation. What a summary returned by get_summary holds (its
\* counters, the keys of its results and the result bound to each key) is not
\* changed by any later step of an update on the tracker.
C32_SnapshotIsolation ==
    [][ (summary_call.returned /\ summary_call'.returned)
           => SummaryObserved' = SummaryObserved ]_vars

\* a summary taken after the update of pkgA is still what it was after pkgB was
\* updated too
C32_Witness ==
    /\ summary_call.returned
    /\ update_call.pc = "idle"
    /\ SummaryObserved.completed = 1
    /\ DOMAIN SummaryObserved.results = {"pkgA"}
    /\ progress.completed_packages = 2
    /\ DOMAIN progress.results = {"pkgA", "pkgB"}

-----------------------------------------------------------------------------
(* Unit level: WingetManager.search_packages called directly *)

\* the queries passed
SearchQueries == {"", "vscode"}

\* what `winget search` prints on stdout when it exits with 0
SearchOutputs ==
    { "",
      "No package found matching input criteria.",
      "Name Id    Version Source\n--------------------------\nFoo  Foo.A 1.0     winget\n\nBar  Bar.B 2.1     msstore\n",
      "Name Id   Version\n-----------------\nFoo  F.Id 1.0",
      "Name Id    Version Source\n--------------------------\nFoo\n     X.Y   2.0     winget",
      "   -\nName Id  Version\n---\nA    B.C 1",
      "Name Id\n-------\nFoo  Bar",
      "Name Id Version Source",
      "Name Id  Version\nFoo  F.I 1.0",
      "Id   Name Version\n---\nF.I  Foo  1.0",
      "Name Id  Version\n---\n   \nFoo  F.I 1.0\nName Id  Version" }

\* what the subprocess.run of the search command can do
SearchOutcomes ==
    { Completed(0, stdout, "") : stdout \in SearchOutputs }
      \cup { Completed(1, "", "Failed when searching source"),
             TimeoutExpired, FileNotFoundError, OSError }

\* parse_search_output, tabulated over the outputs of the model
ParseTable == [output \in SearchOutputs \cup {""} |-> parse_search_output(output)]

\* str(n) for a one-digit return code
IntText(n) == SubSeq("0123456789", n + 1, n + 1)

\* " ".join(cmd) for the cmd list search_packages builds
SearchCmd(query) ==
    JoinSpace(<<"winget", "search">>
              \o (IF query # "" THEN <<"--query", query>> ELSE <<>>)
              \o <<"--accept-source-agreements">>)

\* WingetExecutionError(message, command, return_code)
SearchExecutionError(message, cmd, return_code) ==
    [type |-> "WingetExecutionError", message |-> message, command |-> cmd,
     return_code |-> return_code]

\* a slip: the exit code of the search command is not looked at
search_succeeded_any_exit(result) == TRUE

\* `if result.returncode == 0`
search_succeeded(result) == result.returncode = 0

\* the call of search_packages(query)
SearchPackages ==
    /\ search.pc \in {"idle", "done"}
    /\ search.calls < MaxSearches
    /\ \E query \in SearchQueries :
          search' = [IdleSearch EXCEPT !.pc = "check", !.calls = search.calls + 1,
                                       !.query = query]

\* `if not WingetManager.is_available(): raise WingetNotAvailableError()`; what
\* is_available raises passes through `except Exception` unchanged
SearchCheckAvailable(Versions) ==
    /\ search.pc = "check"
    /\ \E outcome \in Versions :
          LET available == is_available(outcome)
          IN  search' =
                 IF available.kind = "raise"
                 THEN [search EXCEPT !.pc = "done", !.version = outcome,
                                     !.out = Raise(available.exc)]
                 ELSE IF ~available.value
                 THEN [search EXCEPT !.pc = "done", !.version = outcome,
                                     !.out = Raise(DefaultNotAvailable)]
                 ELSE [search EXCEPT !.pc = "run", !.version = outcome,
                                     !.cmd = SearchCmd(search.query)]

\* result = subprocess.run(cmd, ..., timeout=config.winget_timeout)
SearchRun(Outcomes) ==
    /\ search.pc = "run"
    /\ \E outcome \in Outcomes :
          search' = [search EXCEPT !.pc = "ran", !.ran = TRUE, !.result = outcome]

\* the if statement on the return code, and the except clauses
SearchFinish ==
    /\ search.pc = "ran"
    /\ LET result == search.result
           out ==
             CASE result.kind = "completed" ->
                    IF search_succeeded(result)
                    THEN Return(ParseTable[result.stdout])
                    ELSE Raise(SearchExecutionError(
                            "Search command failed with return code "
                               \o IntText(result.returncode) \o ": " \o result.stderr,
                            search.cmd, result.returncode))
               [] result.kind = "TimeoutExpired" ->
                    Raise(SearchExecutionError(
                            "Search command timed out after " \o WingetTimeoutText
                               \o " seconds", search.cmd, NoneObj))
               [] OTHER ->
                    Raise(SearchExecutionError("Unexpected error: " \o result.text,
                                               NoneObj, NoneObj))
       IN  search' = [search EXCEPT !.pc = "done", !.out = out]

InitSearch ==
    /\ TrackerIdle
    /\ InstallerIdle
    /\ retry_attempts = 0
    /\ frames = [o \in Owners |-> IdleFrame]
    /\ ip_log = <<>>

NextSearch ==
    \/ SearchPackages /\ UNCHANGED <<trackerVars, snapshotVars, facadeVars, installerVars>>
    \/ SearchCheckAvailable(VersionOutcomes)
          /\ UNCHANGED <<trackerVars, snapshotVars, facadeVars, installerVars>>
    \/ SearchRun(SearchOutcomes)
          /\ UNCHANGED <<trackerVars, snapshotVars, facadeVars, installerVars>>
    \/ SearchFinish /\ UNCHANGED <<trackerVars, snapshotVars, facadeVars, installerVars>>

SpecSearch == InitSearch /\ [][NextSearch]_vars

\* the search call has ended by raising an exception of the type
SearchRaised(type) ==
    search.pc = "done" /\ search.out.kind = "raise" /\ search.out.exc.type = type

\* C27: search_packages. When the availability check fails the call raises
\* WingetNotAvailableError and the search command is never run; when the search
\* command exits non-zero, times out or fails otherwise the call raises
\* WingetExecutionError; it returns only when the command exited with 0, and then
\* the records parsed from its stdout.
C27_SearchOutcome ==
    /\ search.ran => ~VersionFailed(search.version)
    /\ search.pc = "done" =>
          /\ VersionFailed(search.version)
                => ~search.ran /\ SearchRaised("WingetNotAvailableError")
          /\ ~VersionFailed(search.version) => search.ran
          /\ (search.ran /\ VersionFailed(search.result))
                => SearchRaised("WingetExecutionError")
          /\ search.out.kind = "return"
                => /\ search.ran
                   /\ search.result.kind = "completed"
                   /\ search.result.returncode = 0
                   /\ search.out.value = parse_search_output(search.result.stdout)

\* `winget search --query vscode` exits with 1: WingetExecutionError carrying the
\* command line and the exit code
C27_Witness ==
    /\ search.query = "vscode"
    /\ search.result = Completed(1, "", "Failed when searching source")
    /\ SearchRaised("WingetExecutionError")
    /\ search.out.exc.command = "winget search --query vscode --accept-source-agreements"
    /\ search.out.exc.return_code = 1
    /\ search.out.exc.message
          = "Search command failed with return code 1: Failed when searching source"

\* the lines of the output parsed, and the index of its header line (or -1)
ParsedLines == splitlines(search.result.stdout)
ParsedHeader == header_index(ParsedLines)

\* the Python indexes of the lines after the header and the line that follows it
\* that are not blank and whose name and id slices are not empty after trimming
EmittingLines ==
    { i \in (ParsedHeader + 2)..(Len(ParsedLines) - 1) :
        LET line == ParsedLines[i + 1]
            c    == Columns(ParsedLines[ParsedHeader + 1])
        IN  /\ strip(line) # ""
            /\ strip(Slice(line, 0, c.name_end)) # ""
            /\ strip(Slice(line, c.id_start, c.version_start)) # "" }

\* the elements of a set of integers below i
Below(S, i) == { j \in S : j < i }

\* C28: parse_search_output returns the empty list for an empty output and for an
\* output in which no line contains both "Name" and "Id"; otherwise it skips the
\* header line and the line after it, skips blank lines, and emits in input order
\* one record for each remaining line whose name and id slices are both non-empty
\* after trimming: no record has an empty name or id.
C28_ParseSearchOutput ==
    (search.pc = "done" /\ search.out.kind = "return") =>
       LET records == search.out.value
       IN  /\ \A j \in 1..Len(records) : records[j].name # "" /\ records[j].id # ""
           /\ (search.result.stdout = "" \/ \A k \in 1..Len(ParsedLines) :
                                                ~IsHeader(ParsedLines[k]))
                 => records = <<>>
           /\ (\E k \in 1..Len(ParsedLines) : IsHeader(ParsedLines[k]))
                 => /\ Len(records) = Cardinality(EmittingLines)
                    /\ \A i \in EmittingLines :
                          LET rec == records[Cardinality(Below(EmittingLines, i)) + 1]
                              c   == Columns(ParsedLines[ParsedHeader + 1])
                          IN  /\ rec.name = strip(Slice(ParsedLines[i + 1], 0, c.name_end))
                              /\ rec.id = strip(Slice(ParsedLines[i + 1], c.id_start,
                                                      c.version_start))

\* an output with a header, a separator, a blank line and two data lines, the
\* second of them a repeated header: two records, in input order
C28_Witness ==
    /\ search.pc = "done"
    /\ search.out.kind = "return"
    /\ search.result.stdout = "Name Id  Version\n---\n   \nFoo  F.I 1.0\nName Id  Version"
    /\ Len(search.out.value) = 2
    /\ search.out.value[1].name = "Foo"
    /\ search.out.value[1].id = "F.I"
    /\ search.out.value[2].name = "Name"

-----------------------------------------------------------------------------
(* Installer.install_packages, as run by a foreground caller *)

\* a slip: the guard only asks whether a thread was ever made
is_installing_ever_started == installation_thread # NoThread

\* Installer.is_installing
is_installing ==
    /\ installation_thread # NoThread
    /\ threads[installation_thread].state = "alive"

\* the lists of at most n package ids
Lists(n) == UNION { [1..k -> PackageIds] : k \in 0..n }

\* what the caller may pass besides package_ids (silent keeps its default)
InstallOptions ==
    [ callback : BOOLEAN, progress_callback : BOOLEAN,
      silent : {TRUE}, stop_on_first_failure : BOOLEAN ]

\* a thread that is not running and that only self._installation_thread refers to:
\* it is garbage once that attribute is assigned again
Dropped(t) == t = installation_thread /\ threads[t].state \in {"created", "finished"}

\* the thread objects that can be (re)used for a new Thread()
Reusable == { t \in Threads : threads[t].state = "free" \/ Dropped(t) }

\* a slip: the tracker is replaced before the guard is looked at
progress_when_rejected_replaced(self_progress) == InstallationProgress(0)

\* the tracker the Installer holds after the guard has raised: the raise comes
\* before anything is assigned
progress_when_rejected(self_progress) == self_progress

\* the call, and the guard `if self.is_installing: raise RuntimeError(...)`
InstallPackagesGuard(c) ==
    /\ callers[c].pc = "idle"
    /\ callers' = [callers EXCEPT ![c] =
          IF is_installing
          THEN [IdleCaller EXCEPT !.last = "RuntimeError"]
          ELSE [IdleCaller EXCEPT !.pc = "guarded",
                                  !.after_finished = (installation_thread # NoThread)]]
    /\ current_progress' = IF is_installing THEN progress_when_rejected(current_progress)
                           ELSE current_progress
    /\ UNCHANGED <<installation_thread, threads, retry_attempts>>

\* a slip: the empty list is not looked for
no_packages_never(package_ids) == FALSE

\* `not package_ids`
no_packages(package_ids) == Len(package_ids) = 0

\* `if not package_ids: return threading.Thread()` (a new Thread object that is never
\* started and is not one of the Installer's threads), else the new tracker;
\* PackageLists is what the caller may pass as package_ids
InstallPackagesAlloc(c, PackageLists) ==
    /\ callers[c].pc = "guarded"
    /\ \E package_ids \in PackageLists :
          IF no_packages(package_ids)
          THEN /\ callers' = [callers EXCEPT ![c] = [IdleCaller EXCEPT !.last = "noop"]]
               /\ UNCHANGED current_progress
          ELSE /\ callers' = [callers EXCEPT ![c].pc = "spawn",
                                             ![c].args = [package_ids |-> package_ids]]
               /\ current_progress' = InstallationProgress(Len(package_ids))
    /\ UNCHANGED <<installation_thread, threads, retry_attempts>>

\* def install_thread() closes over the other arguments (Options is what the
\* caller may pass for them: they are first read here), and
\* self._installation_thread = threading.Thread(target=install_thread, ...)
InstallPackagesSpawn(c, Options) ==
    /\ callers[c].pc = "spawn"
    /\ Reusable # {}
    /\ \E options \in Options :
          LET t == CHOOSE x \in Reusable : \A y \in Reusable : x <= y
          IN  /\ threads' = [u \in Threads |->
                    IF u = t
                    THEN [FreeThread EXCEPT
                             !.state = "created", !.launcher = c,
                             !.package_ids = callers[c].args.package_ids,
                             !.callback = options.callback,
                             !.progress_callback = options.progress_callback,
                             !.silent = options.silent,
                             !.stop_on_first_failure = options.stop_on_first_failure]
                    ELSE IF Dropped(u) THEN FreeThread
                    ELSE threads[u]]
              /\ installation_thread' = t
              /\ callers' = [callers EXCEPT ![c].pc = "start", ![c].thread = t,
                                            ![c].args = NoneObj]
    /\ UNCHANGED <<current_progress, retry_attempts>>

\* self._installation_thread.start(); return self._installation_thread
\* (Thread.start() raises RuntimeError when the thread was started before)
InstallPackagesStart(c) ==
    /\ callers[c].pc = "start"
    /\ IF threads[installation_thread].state = "created"
       THEN /\ threads' = [threads EXCEPT ![installation_thread].state = "alive",
                                          ![installation_thread].pc = "for",
                                          ![installation_thread].i = 1]
            /\ callers' = [callers EXCEPT ![c] =
                  [IdleCaller EXCEPT !.last = "accepted", !.thread = installation_thread,
                                     !.after_finished = callers[c].after_finished]]
       ELSE /\ callers' = [callers EXCEPT ![c] =
                  [IdleCaller EXCEPT !.last = "RuntimeError: started once"]]
            /\ UNCHANGED threads
    /\ UNCHANGED <<current_progress, installation_thread, retry_attempts>>

\* a slip: a tracker that has counted nothing yet is taken for no tracker
get_installation_summary_if_counted ==
    IF current_progress # NoneObj /\ current_progress.completed_packages > 0
    THEN get_summary(current_progress) ELSE NoneObj

\* Installer.get_installation_summary
get_installation_summary ==
    IF current_progress # NoneObj THEN get_summary(current_progress) ELSE NoneObj

-----------------------------------------------------------------------------
(* install_thread, the target of the background thread *)

Running(t, pc) == threads[t].state = "alive" /\ threads[t].pc = pc

\* the thread function has returned: the thread is no longer alive, its locals are
\* gone, and a thread that self._installation_thread does not refer to is garbage
Finish(t, ending) ==
    threads' = [threads EXCEPT ![t] =
        IF t = installation_thread
        THEN [@ EXCEPT !.state = "finished", !.pc = "", !.i = 0, !.pkg_id = None,
                       !.result = NoneObj, !.ending = ending]
        ELSE FreeThread]

\* a slip: the not_found result lacks the skipped flag
ErrorResult_not_found_unskipped(e, pkg_id) ==
    CASE e.type = "AdminPrivilegesRequiredError" ->
            [ success |-> FALSE, error_type |-> "admin_required",
              error_message |-> e.message, package_id |-> pkg_id, skipped |-> TRUE ]
      [] e.type \in {"WingetNotAvailableError", "WingetExecutionError",
                     "InstallationFailedError", "PackageNotFoundError"} ->
            [ success |-> FALSE,
              error_type |-> IF e.type = "PackageNotFoundError" THEN "not_found" ELSE e.type,
              error_message |-> e.message, package_id |-> pkg_id ]
      [] OTHER ->
            [ success |-> FALSE, error_type |-> "unexpected_error",
              error_message |-> e.message, package_id |-> pkg_id ]

\* the result dict an exception raised by install_package is turned into
ErrorResult(e, pkg_id) ==
    CASE e.type = "AdminPrivilegesRequiredError" ->
            [ success |-> FALSE, error_type |-> "admin_required",
              error_message |-> e.message, package_id |-> pkg_id, skipped |-> TRUE ]
      [] e.type = "PackageNotFoundError" ->
            [ success |-> FALSE, error_type |-> "not_found",
              error_message |-> e.message, package_id |-> pkg_id, skipped |-> TRUE ]
      [] e.type \in {"WingetNotAvailableError", "WingetExecutionError",
                     "InstallationFailedError"} ->
            [ success |-> FALSE, error_type |-> e.type,
              error_message |-> e.message, package_id |-> pkg_id ]
      [] OTHER ->
            [ success |-> FALSE, error_type |-> "unexpected_error",
              error_message |-> e.message, package_id |-> pkg_id ]

\* a slip: the handler of the unanticipated exceptions does not stop the batch
StopsBatch_anticipated_only(e) ==
    e.type \in {"WingetNotAvailableError", "WingetExecutionError", "InstallationFailedError"}

\* the handlers that test stop_on_first_failure
StopsBatch(e) == e.type \notin {"AdminPrivilegesRequiredError", "PackageNotFoundError"}

\* a slip: the handlers break without looking at stop_on_first_failure
breaks_batch_always(e, stop_on_first_failure) == StopsBatch(e)

\* `if stop_on_first_failure: ... break` in the handler that caught e
breaks_batch(e, stop_on_first_failure) == StopsBatch(e) /\ stop_on_first_failure

\* a slip: an early stop leaves the loop variable where it is and goes round again
after_stop_loops_again == "for"

\* where `break` leads: out of the for loop, to the final summary
after_stop == "summary"

\* `for i, pkg_id in enumerate(package_ids, 1)` and
\* `self._current_progress.current_package = pkg_id`
ThreadFor(t) ==
    /\ Running(t, "for")
    /\ IF threads[t].i <= Len(threads[t].package_ids)
       THEN /\ threads' = [threads EXCEPT ![t].pc = "install",
                                          ![t].pkg_id = threads[t].package_ids[threads[t].i]]
            /\ current_progress' =
                  IF current_progress # NoneObj
                  THEN [current_progress EXCEPT
                           !.current_package = threads[t].package_ids[threads[t].i]]
                  ELSE current_progress
       ELSE /\ threads' = [threads EXCEPT ![t].pc = "summary", ![t].ending = "normal"]
            /\ UNCHANGED current_progress
    /\ UNCHANGED <<installation_thread, callers, retry_attempts, frames>>

\* result = self.winget.install_package(pkg_id, silent=silent): the call
ThreadInstall(t) ==
    /\ Running(t, "install")
    /\ IpEnter(t, threads[t].pkg_id, threads[t].silent, retry_attempts)
    /\ threads' = [threads EXCEPT ![t].pc = "installing",
                                  ![t].attempted = Append(@, threads[t].pkg_id)]
    /\ UNCHANGED <<current_progress, installation_thread, callers, retry_attempts>>

\* self.winget is an attribute of the Installer, and install_thread has handlers
\* for install_package raising PackageNotFoundError and any other Exception:
\* what a stand-in for self.winget raises to reach them
DoubleOutcomes(pkg_id) ==
    { Raise(PackageNotFoundError(pkg_id)),
      Raise([type |-> "Exception", message |-> "stand-in failure"]) }

\* the same call, answered by the stand-in
ThreadInstallDouble(t) ==
    /\ Running(t, "install")
    /\ frames[t].pc = "idle"
    /\ \E out \in DoubleOutcomes(threads[t].pkg_id) :
          frames' = [frames EXCEPT ![t] =
             [IdleFrame EXCEPT !.pc = "done", !.package_id = threads[t].pkg_id,
                               !.silent = threads[t].silent, !.out = out]]
    /\ threads' = [threads EXCEPT ![t].pc = "installing",
                                  ![t].attempted = Append(@, threads[t].pkg_id)]
    /\ UNCHANGED <<current_progress, installation_thread, callers, retry_attempts>>

\* a slip: the result callback is made before the result is recorded
after_handlers_callback_first == "callback"

\* the first statement after the try statement of an iteration that did not break:
\* `if self._current_progress: self._current_progress.update(pkg_id, result)`
after_handlers == "update"

\* install_package has returned or raised: the except clauses of the inner try
ThreadCatch(t) ==
    /\ Running(t, "installing")
    /\ frames[t].pc = "done"
    /\ LET out == frames[t].out
           result == IF out.kind = "return" THEN out.value
                     ELSE ErrorResult(out.exc, threads[t].pkg_id)
       IN  threads' = [threads EXCEPT
              ![t].result = result,
              ![t].produced = Append(@, result),
              ![t].pc = IF out.kind = "raise"
                           /\ breaks_batch(out.exc, threads[t].stop_on_first_failure)
                        THEN "stop_update" ELSE after_handlers]
    /\ frames' = [frames EXCEPT ![t] = IdleFrame]
    /\ UNCHANGED <<current_progress, installation_thread, callers, retry_attempts>>

\* a slip: the result callback is never called on the normal path
result_callback_next_never(th) == "pace"

\* `if callback: callback(pkg_id, result)`: where the thread goes next
result_callback_next(th) == IF th.callback THEN "callback" ELSE "pace"

\* self._current_progress.update(pkg_id, result)
ThreadUpdate(t) ==
    /\ Running(t, "update")
    /\ current_progress' =
          IF current_progress # NoneObj
          THEN update(current_progress, threads[t].pkg_id, threads[t].result)
          ELSE current_progress
    /\ threads' = [threads EXCEPT ![t].pc =
          IF current_progress # NoneObj /\ threads[t].progress_callback THEN "progress_callback"
          ELSE result_callback_next(threads[t])]
    /\ UNCHANGED <<installation_thread, callers, retry_attempts, frames>>

\* a slip: what a callback raises is dropped and the batch goes on
on_callback_error_ignored == "pace"

\* where an exception raised by a callback leads: to `except Exception` of the
\* outer try
on_callback_error == "critical"

\* progress_callback(self._current_progress): it returns, or it raises
ThreadProgressCallback(t) ==
    /\ Running(t, "progress_callback")
    /\ \E raises \in BOOLEAN :
          threads' = [threads EXCEPT
             ![t].progress_calls =
                 Append(@, [pkg_id |-> threads[t].pkg_id,
                            completed |-> current_progress.completed_packages]),
             ![t].raised = raises,
             ![t].pc = IF raises THEN on_callback_error
                       ELSE result_callback_next(threads[t])]
    /\ UNCHANGED <<current_progress, installation_thread, callers, retry_attempts, frames>>

\* callback(pkg_id, result): it returns, or it raises
ThreadCallback(t) ==
    /\ Running(t, "callback")
    /\ \E raises \in BOOLEAN :
          threads' = [threads EXCEPT
             ![t].callbacks = Append(@, <<threads[t].pkg_id, threads[t].result>>),
             ![t].raised = raises,
             ![t].pc = IF raises THEN on_callback_error ELSE "pace"]
    /\ UNCHANGED <<current_progress, installation_thread, callers, retry_attempts, frames>>

\* a slip: the loop does not move on to the next list position
next_position_repeats(i) == i

\* the next value of i in `for i, pkg_id in enumerate(package_ids, 1)`
next_position(i) == i + 1

\* `if i < len(package_ids): time.sleep(0.5)`, and on to the next package
ThreadPace(t) ==
    /\ Running(t, "pace")
    /\ threads' = [threads EXCEPT ![t].pc = "for", ![t].i = next_position(@),
                                  ![t].pkg_id = None, ![t].result = NoneObj]
    /\ UNCHANGED <<current_progress, installation_thread, callers, retry_attempts, frames>>

\* under stop_on_first_failure: self._current_progress.update(pkg_id, result)
ThreadStopUpdate(t) ==
    /\ Running(t, "stop_update")
    /\ current_progress' =
          IF current_progress # NoneObj
          THEN update(current_progress, threads[t].pkg_id, threads[t].result)
          ELSE current_progress
    /\ threads' = [threads EXCEPT
          ![t].pc = IF threads[t].callback THEN "stop_callback" ELSE after_stop,
          ![t].ending = IF threads[t].callback THEN @ ELSE "stopped"]
    /\ UNCHANGED <<installation_thread, callers, retry_attempts, frames>>

\* under stop_on_first_failure: callback(pkg_id, result), then break
ThreadStopCallback(t) ==
    /\ Running(t, "stop_callback")
    /\ \E raises \in BOOLEAN :
          threads' = [threads EXCEPT
             ![t].callbacks = Append(@, <<threads[t].pkg_id, threads[t].result>>),
             ![t].raised = raises,
             ![t].pc = IF raises THEN on_callback_error ELSE after_stop,
             ![t].ending = IF raises THEN @ ELSE "stopped"]
    /\ UNCHANGED <<current_progress, installation_thread, callers, retry_attempts, frames>>

\* the final summary is logged, the finally clause runs, the function returns
ThreadSummary(t) ==
    /\ Running(t, "summary")
    /\ Finish(t, threads[t].ending)
    /\ UNCHANGED <<current_progress, installation_thread, callers, retry_attempts, frames>>

\* `except Exception` of the outer try, the finally clause, the function returns
ThreadCritical(t) ==
    /\ Running(t, "critical")
    /\ Finish(t, "critical")
    /\ UNCHANGED <<current_progress, installation_thread, callers, retry_attempts, frames>>

-----------------------------------------------------------------------------
(* The installer with one foreground caller *)

Init ==
    /\ TrackerIdle
    /\ InstallerIdle
    /\ retry_attempts \in 0..MaxConfigRetry
    /\ frames = [o \in Owners |-> IdleFrame]
    /\ ip_log = <<>>

\* a step of a foreground caller leaves the rest alone
Fg == UNCHANGED <<frames, ip_log, trackerVars, snapshotVars, searchVars>>

\* a step of the background thread leaves the rest alone
Bg == UNCHANGED <<ip_log, trackerVars, snapshotVars, searchVars>>

\* a step of install_package made by a background thread leaves the rest alone
BgIp == UNCHANGED <<ip_log, trackerVars, snapshotVars, searchVars, installerVars>>

\* a step of the background thread t, install_package included; Versions and
\* Outcomes are what `winget --version` and `winget install` may answer
ThreadStep(t, Versions, Outcomes) ==
    \/ ThreadFor(t) /\ Bg
    \/ ThreadInstall(t) /\ Bg
    \/ ThreadInstallDouble(t) /\ Bg
    \/ IpCheckAvailable(t, Versions) /\ BgIp
    \/ IpLoop(t) /\ BgIp
    \/ IpRun(t, Outcomes) /\ BgIp
    \/ IpClassify(t) /\ BgIp
    \/ IpExceptTimeout(t) /\ BgIp
    \/ IpExcept(t) /\ BgIp
    \/ IpAfterLoop(t) /\ BgIp
    \/ ThreadCatch(t) /\ Bg
    \/ ThreadUpdate(t) /\ Bg
    \/ ThreadProgressCallback(t) /\ Bg
    \/ ThreadCallback(t) /\ Bg
    \/ ThreadPace(t) /\ Bg
    \/ ThreadStopUpdate(t) /\ Bg
    \/ ThreadStopCallback(t) /\ Bg
    \/ ThreadSummary(t) /\ Bg
    \/ ThreadCritical(t) /\ Bg

Next ==
    \/ InstallPackagesGuard(MainCaller) /\ Fg
    \/ InstallPackagesAlloc(MainCaller, Lists(MaxPkgs)) /\ Fg
    \/ InstallPackagesSpawn(MainCaller, InstallOptions) /\ Fg
    \/ InstallPackagesStart(MainCaller) /\ Fg
    \/ \E t \in Threads : ThreadStep(t, CoreVersionOutcomes, CoreInstallOutcomes)

Spec == Init /\ [][Next]_vars

\* Spec, with a started thread scheduled again and again, and every external
\* command and every callback returning or raising
SpecFair ==
    Spec /\ \A t \in Threads :
               WF_vars(ThreadStep(t, CoreVersionOutcomes, CoreInstallOutcomes))

-----------------------------------------------------------------------------
(* The installer with two foreground callers of the same Installer *)

\* the package lists and the options the two callers pass
ConcLists == { <<"pkgA">>, <<"pkgB">> }
ConcOptions == { o \in InstallOptions : o.callback /\ o.progress_callback }

\* what the external commands answer while the two callers race
ConcVersionOutcomes == { Completed(0, "v1.9.0", "") }
ConcInstallOutcomes ==
    { Completed(0, "Successfully installed", ""),
      Completed(1, "", "Error 0x8A15"),
      TimeoutExpired, OSError }

InitConc == Init /\ retry_attempts = 0

\* each of the two callers calls install_packages once
NextConc ==
    \/ \E c \in Callers : callers[c].last = "none" /\ InstallPackagesGuard(c) /\ Fg
    \/ \E c \in Callers : InstallPackagesAlloc(c, ConcLists) /\ Fg
    \/ \E c \in Callers : InstallPackagesSpawn(c, ConcOptions) /\ Fg
    \/ \E c \in Callers : InstallPackagesStart(c) /\ Fg
    \/ \E t \in Threads : ThreadStep(t, ConcVersionOutcomes, ConcInstallOutcomes)

SpecConc == InitConc /\ [][NextConc]_vars

-----------------------------------------------------------------------------
(* The installer with a foreground caller that also waits for the batch *)

\* what the caller may pass as timeout: None, or a number of seconds
WaitTimeouts == {None, "seconds"}

\* a slip: the wait reports completion whatever the thread does
finished_now_always(t) == TRUE

\* `not self._installation_thread.is_alive()`
finished_now(t) == threads[t].state # "alive"

\* the call of wait_for_completion(timeout), and
\* `if not self._installation_thread: return True`
WaitForCompletion(c, Timeouts) ==
    /\ callers[c].pc = "idle"
    /\ \E timeout \in Timeouts :
          callers' = [callers EXCEPT ![c] =
             IF installation_thread = NoThread
             THEN [@ EXCEPT !.timeout = timeout, !.join = "", !.wait = "True"]
             ELSE [@ EXCEPT !.pc = "join", !.timeout = timeout, !.join = "",
                            !.wait = "none"]]
    /\ UNCHANGED <<current_progress, installation_thread, threads, retry_attempts>>

\* self._installation_thread.join(timeout=timeout): it returns when the thread has
\* ended, or (with a timeout) when the time is over while the thread still runs;
\* Thread.join raises RuntimeError for a thread that was never started
WaitJoin(c) ==
    /\ callers[c].pc = "join"
    /\ LET state == threads[installation_thread].state
       IN  /\ state = "alive" => callers[c].timeout # None
           /\ callers' = [callers EXCEPT ![c] =
                 CASE state = "created" ->
                         [@ EXCEPT !.pc = "idle", !.join = "RuntimeError",
                                   !.wait = "RuntimeError"]
                   [] state = "finished" -> [@ EXCEPT !.pc = "is_alive", !.join = "ended"]
                   [] OTHER -> [@ EXCEPT !.pc = "is_alive", !.join = "timeout"]]
    /\ UNCHANGED <<current_progress, installation_thread, threads, retry_attempts>>

\* return not self._installation_thread.is_alive()
WaitReturn(c) ==
    /\ callers[c].pc = "is_alive"
    /\ callers' = [callers EXCEPT
          ![c].pc = "idle",
          ![c].wait = IF finished_now(installation_thread) THEN "True" ELSE "False"]
    /\ UNCHANGED <<current_progress, installation_thread, threads, retry_attempts>>

InitWait == Init /\ retry_attempts = 0

\* a step of the foreground caller: through install_packages or wait_for_completion
WaitCallerStep ==
    \/ InstallPackagesGuard(MainCaller) /\ Fg
    \/ InstallPackagesAlloc(MainCaller, ConcLists) /\ Fg
    \/ InstallPackagesSpawn(MainCaller, ConcOptions) /\ Fg
    \/ InstallPackagesStart(MainCaller) /\ Fg
    \/ WaitForCompletion(MainCaller, WaitTimeouts) /\ Fg
    \/ WaitJoin(MainCaller) /\ Fg
    \/ WaitReturn(MainCaller) /\ Fg

NextWait ==
    \/ WaitCallerStep
    \/ \E t \in Threads : ThreadStep(t, ConcVersionOutcomes, ConcInstallOutcomes)

SpecWait == InitWait /\ [][NextWait]_vars

\* SpecWait, with a started thread and a caller inside wait_for_completion
\* scheduled again and again
SpecWaitFair ==
    /\ SpecWait
    /\ \A t \in Threads : WF_vars(ThreadStep(t, ConcVersionOutcomes, ConcInstallOutcomes))
    /\ WF_vars(WaitJoin(MainCaller) /\ Fg)
    /\ WF_vars(WaitReturn(MainCaller) /\ Fg)

-----------------------------------------------------------------------------
(* Properties of the installer *)

\* a background unit exists and has not finished
UnitRunning == \E t \in Threads : threads[t].state = "alive"

\* the thread self._installation_thread refers to, when there is one
Handle == threads[installation_thread]

\* the step is one of caller c's steps through install_packages
CallerStep(c) == callers'[c] # callers[c]

\* C1: with two or more callers of install_packages on one Installer, the guard
\* check and the start of the thread behave atomically: never are two background
\* threads of the instance alive at once
C1_SingleFlight ==
    Cardinality({ t \in Threads : threads[t].state = "alive" }) <= 1

\* C2: with a single foreground caller, a call made while the previous batch's
\* thread is running gets RuntimeError at once and starts nothing; a call made when
\* no thread is running passes the guard, and with a non-empty list it goes on to
\* start a new thread on a fresh tracker
C2_RejectWhileRunningAcceptAfter ==
    [][ /\ (callers[MainCaller].pc = "idle" /\ UnitRunning /\ CallerStep(MainCaller))
            => /\ callers'[MainCaller].pc = "idle"
               /\ callers'[MainCaller].last = "RuntimeError"
               /\ UNCHANGED <<threads, installation_thread, current_progress>>
        /\ (callers[MainCaller].pc = "idle" /\ ~UnitRunning /\ CallerStep(MainCaller))
            => callers'[MainCaller].pc = "guarded"
        /\ (callers[MainCaller].pc = "guarded" /\ CallerStep(MainCaller))
            => \/ callers'[MainCaller].last = "noop" /\ UNCHANGED threads
               \/ /\ callers'[MainCaller].pc = "spawn"
                  /\ current_progress'.completed_packages = 0
        /\ (callers[MainCaller].pc = "spawn" /\ CallerStep(MainCaller))
            => callers'[MainCaller].pc = "start"
        /\ (callers[MainCaller].pc = "start" /\ CallerStep(MainCaller))
            => /\ callers'[MainCaller].last = "accepted"
               /\ ~UnitRunning
               /\ threads'[installation_thread].state = "alive"
               /\ threads'[installation_thread].attempted = <<>> ]_vars

\* a second batch is running, accepted after the first one's thread had finished
C2_Witness ==
    /\ callers[MainCaller].last = "accepted"
    /\ callers[MainCaller].after_finished
    /\ UnitRunning

\* C3: when every external command and every callback returns or raises, the
\* thread of an accepted batch finishes (it attempts each package at most once),
\* and once it has, is_installing stays false until a next call starts a thread,
\* however the batch ended
C3_GuardReleased ==
    /\ UnitRunning ~> ~is_installing
    /\ [](\A t \in Threads : Len(threads[t].attempted) <= Len(threads[t].package_ids))
    /\ [][ (~is_installing /\ is_installing')
              => callers[MainCaller].pc = "start" /\ CallerStep(MainCaller) ]_vars

\* a batch has ended because a callback raised, and the guard is released
C3_Witness ==
    /\ installation_thread # NoThread
    /\ Handle.state = "finished"
    /\ Handle.ending = "critical"
    /\ Handle.callbacks # <<>>
    /\ ~is_installing

-----------------------------------------------------------------------------
(* Properties of a batch, checked under Spec (one foreground caller) *)

\* a result dict made by one of the handlers, with this error_type
ErrorKind(result, kinds) ==
    /\ ~result.success
    /\ "error_type" \in DOMAIN result
    /\ result.error_type \in kinds

\* the failures after which stop_on_first_failure is expected to stop the batch
HardKinds ==
    {"WingetNotAvailableError", "WingetExecutionError", "InstallationFailedError",
     "unexpected_error"}

HardFailure(result) == ErrorKind(result, HardKinds)

\* self._current_progress is the tracker made for the thread self._installation_thread
\* refers to (between lines 134 and 237 of a next call it is already the next one)
TrackerOfHandle == current_progress # NoneObj /\ callers[MainCaller].pc # "spawn"

\* the package ids the thread has attempted up to its k-th one
AttemptedUpTo(t, k) == { threads[t].attempted[j] : j \in 1..k }

\* C14: Early stop on a hard failure. With stop_on_first_failure, once the install
\* of the k-th package has ended in WingetNotAvailableError, WingetExecutionError,
\* InstallationFailedError or an unexpected error, no further package is attempted,
\* the callback is invoked at most once for it (exactly once when the thread has
\* finished), and the tracker has counted it once and holds no later package.
C14_StopOnHardFailure ==
    \A t \in Threads :
       LET th == threads[t]
       IN  th.stop_on_first_failure =>
           \A k \in 1..Len(th.produced) :
              HardFailure(th.produced[k]) =>
                 /\ k = Len(th.produced)
                 /\ k = Len(th.attempted)
                 /\ th.state = "alive"
                      => th.pc \in {"stop_update", "stop_callback", "summary", "critical"}
                 /\ Len(th.callbacks) <= k
                 /\ Len(th.callbacks) = k
                      => th.callbacks[k] = <<th.attempted[k], th.produced[k]>>
                 /\ (th.callback /\ th.state = "finished") => Len(th.callbacks) = k
                 /\ (t = installation_thread /\ TrackerOfHandle)
                      => /\ current_progress.completed_packages <= k
                         /\ DOMAIN current_progress.results \subseteq AttemptedUpTo(t, k)
                         /\ th.state = "finished"
                              => /\ current_progress.completed_packages = k
                                 /\ current_progress.results[th.attempted[k]] = th.produced[k]

\* a batch of two with stop_on_first_failure has ended after its first package failed
\* with InstallationFailedError: one attempt, one callback, one tracker entry
C14_Witness ==
    /\ installation_thread # NoThread
    /\ Handle.state = "finished"
    /\ Handle.stop_on_first_failure
    /\ Handle.callback
    /\ Len(Handle.package_ids) = 2
    /\ Len(Handle.attempted) = 1
    /\ Len(Handle.produced) = 1
    /\ ErrorKind(Handle.produced[1], {"InstallationFailedError"})
    /\ Len(Handle.callbacks) = 1
    /\ Handle.ending = "stopped"
    /\ TrackerOfHandle
    /\ current_progress.completed_packages = 1

\* C15: Early stop on any non-success. With stop_on_first_failure, once the install
\* of the k-th package has produced a result that is not a success (the skipped
\* kinds admin_required and not_found included), no further package is attempted
\* and the tracker holds no later package.
C15_StopOnAnyNonSuccess ==
    \A t \in Threads :
       LET th == threads[t]
       IN  th.stop_on_first_failure =>
           \A k \in 1..Len(th.produced) :
              ~th.produced[k].success =>
                 /\ k = Len(th.produced)
                 /\ k = Len(th.attempted)
                 /\ (t = installation_thread /\ TrackerOfHandle)
                      => DOMAIN current_progress.results \subseteq AttemptedUpTo(t, k)

\* C16: The result callback is invoked once per processed package, in input order:
\* its j-th invocation carries the j-th package id and that package's result, and
\* it has been invoked for every processed package but possibly the current one.
\* A batch that ran through all n packages has invoked it n times; a batch stopped
\* early has invoked it for the packages up to and including the stopping one only.
\* (Batches that ended because a callback raised are left aside.)
C16_ResultCallbackOncePerPackage ==
    \A t \in Threads :
       LET th == threads[t]
           n  == Len(th.package_ids)
       IN  /\ ~th.callback => th.callbacks = <<>>
           /\ th.callback =>
                /\ Len(th.callbacks) <= Len(th.produced)
                /\ Len(th.callbacks) >= Len(th.produced) - 1
                /\ \A j \in 1..Len(th.callbacks) :
                      th.callbacks[j] = <<th.package_ids[j], th.produced[j]>>
                /\ (th.state = "finished" /\ th.ending = "normal")
                      => Len(th.callbacks) = n
                /\ (th.state = "finished" /\ th.ending = "stopped")
                      => /\ Len(th.callbacks) = Len(th.attempted)
                         /\ Len(th.callbacks) <= n
                         /\ HardFailure(th.produced[Len(th.callbacks)])

\* a batch of pkgA, pkgB has run through: two invocations, pkgA's then pkgB's
C16_Witness ==
    /\ installation_thread # NoThread
    /\ Handle.state = "finished"
    /\ Handle.ending = "normal"
    /\ Handle.callback
    /\ Handle.package_ids = <<"pkgA", "pkgB">>
    /\ Len(Handle.callbacks) = 2
    /\ Handle.callbacks[1][1] = "pkgA"
    /\ Handle.callbacks[2][1] = "pkgB"
    /\ Handle.callbacks[1][2].success
    /\ ~Handle.callbacks[2][2].success

\* C17: The progress callback is invoked once after each processed package, the
\* package that stops the batch under stop_on_first_failure included: when a batch
\* has ended, its invocations are as many as the tracker's completed count, the
\* j-th one made after the j-th package.
C17_ProgressCallbackAfterEach ==
    \A t \in Threads :
       LET th == threads[t]
       IN  (th.progress_callback /\ th.state = "finished"
              /\ t = installation_thread /\ TrackerOfHandle)
           => /\ Len(th.progress_calls) = current_progress.completed_packages
              /\ \A j \in 1..Len(th.progress_calls) :
                    /\ th.progress_calls[j].pkg_id = th.package_ids[j]
                    /\ th.progress_calls[j].completed = j

\* the package ids of the list are pairwise distinct
Distinct(ids) == \A i, j \in 1..Len(ids) : ids[i] = ids[j] => i = j

\* C18: End-to-end success. When the thread of a batch of n distinct package ids
\* has finished and every install succeeded on its first attempt,
\* get_installation_summary reports total = completed = successful = n and
\* failed = skipped = 0.
C18_EndToEndSuccess ==
    \A t \in Threads :
       LET th == threads[t]
           n  == Len(th.package_ids)
       IN  (/\ th.state = "finished" /\ t = installation_thread /\ TrackerOfHandle
            /\ Distinct(th.package_ids)
            /\ Len(th.produced) = n
            /\ \A j \in 1..n : th.produced[j].success /\ th.produced[j].attempts = 1)
           => LET summary == get_installation_summary
              IN  /\ summary.total = n
                  /\ summary.completed = n
                  /\ summary.successful = n
                  /\ summary.failed = 0
                  /\ summary.skipped = 0
                  /\ DOMAIN summary.results = { th.package_ids[j] : j \in 1..n }

\* the batch pkgA, pkgB has finished, both installed at the first attempt
C18_Witness ==
    /\ installation_thread # NoThread
    /\ Handle.state = "finished"
    /\ TrackerOfHandle
    /\ Handle.package_ids = <<"pkgA", "pkgB">>
    /\ Len(Handle.produced) = 2
    /\ \A j \in 1..2 : Handle.produced[j].success /\ Handle.produced[j].attempts = 1
    /\ get_installation_summary.total = 2
    /\ get_installation_summary.successful = 2

\* C19: Batch classification. An exception raised by install_package becomes a
\* result with success false: AdminPrivilegesRequiredError gives error_type
\* 'admin_required' and skipped true, PackageNotFoundError gives 'not_found' and
\* skipped true, WingetNotAvailableError, WingetExecutionError and
\* InstallationFailedError give the name of the class and no skipped flag, anything
\* else gives 'unexpected_error' and no skipped flag; the tracker then counts the
\* first two as skipped and the others as failed.
C19_BatchClassification ==
    [][ \A t \in Threads :
          /\ (Running(t, "installing") /\ frames[t].pc = "done"
                /\ frames[t].out.kind = "raise" /\ threads'[t].pc # "installing")
             => LET e == frames[t].out.exc
                    r == threads'[t].result
                IN  /\ ~r.success
                    /\ r.package_id = threads[t].pkg_id
                    /\ r.error_message = e.message
                    /\ e.type = "AdminPrivilegesRequiredError"
                         => r.error_type = "admin_required" /\ Flag(r, "skipped")
                    /\ e.type = "PackageNotFoundError"
                         => r.error_type = "not_found" /\ Flag(r, "skipped")
                    /\ e.type \in {"WingetNotAvailableError", "WingetExecutionError",
                                   "InstallationFailedError"}
                         => r.error_type = e.type /\ ~Flag(r, "skipped")
                    /\ e.type \notin {"AdminPrivilegesRequiredError", "PackageNotFoundError",
                                      "WingetNotAvailableError", "WingetExecutionError",
                                      "InstallationFailedError"}
                         => r.error_type = "unexpected_error" /\ ~Flag(r, "skipped")
          /\ (threads[t].state = "alive" /\ threads[t].pc \in {"update", "stop_update"}
                /\ threads'[t].pc # threads[t].pc
                /\ current_progress # NoneObj /\ ~threads[t].result.success)
             => LET r == threads[t].result
                    skipped == current_progress'.skipped_installations
                                  - current_progress.skipped_installations
                    failed  == current_progress'.failed_installations
                                  - current_progress.failed_installations
                IN  /\ current_progress'.results[threads[t].pkg_id] = r
                    /\ current_progress'.successful_installations
                          = current_progress.successful_installations
                    /\ IF ErrorKind(r, {"admin_required", "not_found"})
                       THEN skipped = 1 /\ failed = 0
                       ELSE skipped = 0 /\ failed = 1 ]_vars

\* a batch whose first package needed admin rights and whose second failed after the
\* retries: the tracker holds one skipped and one failed
C19_Witness ==
    /\ installation_thread # NoThread
    /\ TrackerOfHandle
    /\ Len(Handle.produced) = 2
    /\ ErrorKind(Handle.produced[1], {"admin_required"})
    /\ Flag(Handle.produced[1], "skipped")
    /\ ErrorKind(Handle.produced[2], {"InstallationFailedError"})
    /\ current_progress.skipped_installations = 1
    /\ current_progress.failed_installations = 1
    /\ current_progress.completed_packages = 2

\* C20: A per-package failure never aborts the batch. Without
\* stop_on_first_failure, whatever install_package raised is turned into a result
\* with success false and the next package is attempted: a batch whose callbacks
\* did not raise has attempted all its n packages when it ends, and the tracker's
\* completed count is n.
C20_FailureNeverAborts ==
    \A t \in Threads :
       LET th == threads[t]
           n  == Len(th.package_ids)
       IN  ~th.stop_on_first_failure =>
              /\ (th.state = "alive" /\ th.pc \notin {"installing", "critical"}
                    /\ th.ending # "normal")
                   => Len(th.produced) = Len(th.attempted)
              /\ th.state = "alive" => th.pc \notin {"stop_update", "stop_callback"}
              /\ (th.state = "finished" /\ th.ending # "critical")
                   => /\ th.ending = "normal"
                      /\ th.attempted = th.package_ids
                      /\ Len(th.produced) = n
                      /\ (t = installation_thread /\ TrackerOfHandle)
                           => current_progress.completed_packages = n

\* a batch of two without stop_on_first_failure has ended: the first package failed
\* with WingetExecutionError, the second was attempted and installed
C20_Witness ==
    /\ installation_thread # NoThread
    /\ Handle.state = "finished"
    /\ ~Handle.stop_on_first_failure
    /\ Handle.ending = "normal"
    /\ Len(Handle.produced) = 2
    /\ ErrorKind(Handle.produced[1], {"WingetExecutionError"})
    /\ Handle.produced[2].success
    /\ TrackerOfHandle
    /\ current_progress.completed_packages = 2

\* C21: Empty batch is a no-op. A call that passed the guard with an empty list
\* returns without a thread of the Installer, and leaves the stored tracker, the
\* stored thread handle and every thread as they were, so that
\* get_installation_summary and is_installing answer as before; only a non-empty
\* list goes on to allocate a tracker.
C21_EmptyBatchNoOp ==
    [][ (callers[MainCaller].pc = "guarded" /\ CallerStep(MainCaller))
        => \/ /\ callers'[MainCaller].last = "noop"
              /\ callers'[MainCaller].pc = "idle"
              /\ callers'[MainCaller].thread = NoThread
              /\ UNCHANGED <<current_progress, installation_thread, threads>>
              /\ get_installation_summary' = get_installation_summary
              /\ is_installing' = is_installing
              /\ ~is_installing'
           \/ /\ callers'[MainCaller].pc = "spawn"
              /\ callers'[MainCaller].args.package_ids # <<>>
              /\ current_progress'.total_packages
                    = Len(callers'[MainCaller].args.package_ids) ]_vars

\* an empty list was passed after a batch had finished: the tracker and the handle
\* of that batch are still the stored ones
C21_Witness ==
    /\ callers[MainCaller].last = "noop"
    /\ installation_thread # NoThread
    /\ Handle.state = "finished"
    /\ current_progress # NoneObj
    /\ current_progress.completed_packages = Len(Handle.produced)
    /\ current_progress.completed_packages > 0

\* the package ids of the batch accepted last: the call's own while it is between
\* the new tracker and the new thread, else those of the stored thread
LastAcceptedIds ==
    IF callers[MainCaller].pc = "spawn" THEN callers[MainCaller].args.package_ids
    ELSE Handle.package_ids

\* C23: get_installation_summary returns nothing until a first non-empty batch is
\* accepted, and from then on the summary of the tracker made for the batch accepted
\* last, whose total is that batch's number of package ids; at acceptance the tracker
\* is a new one (nothing counted, no results), not the previous one carried over.
C23_SummaryOfLastBatch ==
    /\ [](LET accepted == installation_thread # NoThread \/ callers[MainCaller].pc = "spawn"
          IN  /\ ~accepted => get_installation_summary = NoneObj
              /\ accepted => /\ get_installation_summary # NoneObj
                             /\ get_installation_summary.total = Len(LastAcceptedIds)
                             /\ get_installation_summary.total > 0)
    /\ [][ (callers[MainCaller].pc = "guarded" /\ callers'[MainCaller].pc = "spawn")
           => /\ get_installation_summary'.completed = 0
              /\ get_installation_summary'.successful = 0
              /\ get_installation_summary'.failed = 0
              /\ get_installation_summary'.skipped = 0
              /\ DOMAIN get_installation_summary'.results = {} ]_vars

\* a batch of one package was accepted after an earlier batch had finished: the
\* summary is that of the new tracker
C23_Witness ==
    /\ installation_thread # NoThread
    /\ callers[MainCaller].last = "accepted"
    /\ callers[MainCaller].after_finished
    /\ Len(Handle.package_ids) = 1
    /\ Handle.state = "alive"
    /\ get_installation_summary.total = 1
    /\ get_installation_summary.completed = 0

\* the step lets thread t run InstallationProgress.update on the stored tracker
UpdateStep(t) ==
    /\ threads[t].state = "alive"
    /\ threads[t].pc \in {"update", "stop_update"}
    /\ threads'[t].pc # threads[t].pc
    /\ current_progress' = update(current_progress, threads[t].pkg_id, threads[t].result)

\* C25: update is the tracker's only mutator. Once a tracker is constructed, a step
\* that changes any of its fields (counters, results, current_package) is a call of
\* update; nothing else writes the fields of a tracker.
C25_UpdateOnlyMutator ==
    [][ (/\ current_progress # NoneObj
         /\ current_progress' # current_progress
         /\ ~(callers[MainCaller].pc = "guarded" /\ callers'[MainCaller].pc = "spawn"))
        => \E t \in Threads : UpdateStep(t) ]_vars

\* the thread is processing its i-th package on the path that does not stop the batch
OnNormalPath(t, pcs) ==
    /\ threads[t].state = "alive"
    /\ threads[t].pc \in pcs
    /\ t = installation_thread
    /\ TrackerOfHandle

\* C29: Per-package ordering of a batch that is not stopped early. The tracker is
\* updated for package P, then progress_callback is invoked, then the result
\* callback with (P, result), and only then the install of the next package starts:
\* when either callback is about to run, the tracker's results hold P with its
\* result and completed counts it; when the result callback is about to run, the
\* progress callback (if given) has run for P; and when the install of the i-th
\* package starts, both callbacks have run for the i-1 packages before it.
C29_PerPackageOrdering ==
    \A t \in Threads :
       LET th == threads[t]
       IN  /\ OnNormalPath(t, {"progress_callback", "callback"})
                => /\ th.pkg_id \in DOMAIN current_progress.results
                   /\ current_progress.results[th.pkg_id] = th.result
                   /\ current_progress.completed_packages = th.i
                   /\ Len(th.produced) = th.i
                   /\ Len(th.callbacks) = (IF th.callback THEN th.i - 1 ELSE 0)
           /\ OnNormalPath(t, {"progress_callback"})
                => Len(th.progress_calls) = th.i - 1
           /\ OnNormalPath(t, {"callback"})
                => /\ th.callback
                   /\ th.progress_callback =>
                         /\ Len(th.progress_calls) = th.i
                         /\ th.progress_calls[th.i] =
                               [pkg_id |-> th.pkg_id, completed |-> th.i]
           /\ OnNormalPath(t, {"install", "installing"})
                => /\ current_progress.completed_packages = th.i - 1
                   /\ Len(th.callbacks) = (IF th.callback THEN th.i - 1 ELSE 0)
                   /\ Len(th.progress_calls) = (IF th.progress_callback THEN th.i - 1 ELSE 0)
                   /\ \A j \in 1..(th.i - 1) :
                         th.package_ids[j] \in DOMAIN current_progress.results

\* the result callback is about to run for pkgB, the second package: the tracker
\* counts two packages and the progress callback has run twice
C29_Witness ==
    /\ installation_thread # NoThread
    /\ OnNormalPath(installation_thread, {"callback"})
    /\ Handle.package_ids = <<"pkgA", "pkgB">>
    /\ Handle.pkg_id = "pkgB"
    /\ Handle.progress_callback
    /\ ~Handle.stop_on_first_failure
    /\ Len(Handle.progress_calls) = 2
    /\ Len(Handle.callbacks) = 1
    /\ current_progress.completed_packages = 2
    /\ DOMAIN current_progress.results = {"pkgA", "pkgB"}

\* C22: wait_for_completion returns True at once when no batch was ever started
\* (no thread was ever made). Otherwise it returns True only when the thread has
\* ended by the time it returns, and False only when join gave up on its timeout
\* while the thread was running and the thread is still running; with timeout None
\* join returns only after the thread has ended, and the call then returns True,
\* which it does whenever the thread ends.
C22_WaitForCompletion ==
    /\ [](installation_thread = NoThread <=> \A t \in Threads : threads[t].state = "free")
    /\ [][LET was == callers[MainCaller]
              now == callers'[MainCaller]
          IN  /\ (/\ was.pc = "idle" /\ installation_thread = NoThread
                  /\ now # was /\ now.pc # "guarded")
                    => now.pc = "idle" /\ now.wait = "True"
              /\ (was.pc = "idle" /\ now.pc = "join") => installation_thread # NoThread
              /\ (was.pc = "join" /\ now.pc # "join")
                    => /\ now.pc = "is_alive"
                       /\ now.join = "timeout"
                             => /\ was.timeout # None
                                /\ threads[installation_thread].state = "alive"
                       /\ now.join = "ended"
                             => threads[installation_thread].state = "finished"
                       /\ was.timeout = None => now.join = "ended"
              /\ (was.pc = "is_alive" /\ now.pc # "is_alive")
                    => /\ now.pc = "idle"
                       /\ now.wait \in {"True", "False"}
                       /\ now.wait = "True"
                             => threads'[installation_thread'].state = "finished"
                       /\ now.wait = "False"
                             => /\ was.timeout # None
                                /\ was.join = "timeout"
                                /\ threads'[installation_thread'].state = "alive"
         ]_vars
    /\ (callers[MainCaller].pc = "join" /\ callers[MainCaller].timeout = None)
          ~> (callers[MainCaller].pc = "idle" /\ callers[MainCaller].wait = "True")

\* a wait without a timeout has returned True after the thread of a batch ended
C22_Witness ==
    /\ callers[MainCaller].pc = "idle"
    /\ callers[MainCaller].timeout = None
    /\ callers[MainCaller].join = "ended"
    /\ callers[MainCaller].wait = "True"
    /\ installation_thread # NoThread
    /\ Handle.state = "finished"
    /\ Handle.attempted # <<>>

\* C37: Within a batch run with one foreground caller, in every state: the
\* tracker's total is the length of the batch's list and completed is at most
\* total; completed is the number of packages whose processing has finished (the
\* results produced, less the one still to be recorded); the list positions are
\* processed in order, each at most once; and current_package is empty (nothing
\* entered yet) or the id at the position processed last or being processed.
C37_BatchTrackerInvariant ==
    \A t \in Threads :
       LET th == threads[t]
           n  == Len(th.package_ids)
           a  == Len(th.attempted)
       IN  (t = installation_thread /\ TrackerOfHandle /\ th.state # "free")
           => /\ current_progress.total_packages = n
              /\ current_progress.completed_packages <= n
              /\ current_progress.completed_packages
                    = Len(th.produced)
                      - (IF th.state = "alive" /\ th.pc \in {"update", "stop_update"}
                         THEN 1 ELSE 0)
              /\ a <= n
              /\ \A j \in 1..a : th.attempted[j] = th.package_ids[j]
              /\ Len(th.produced) \in {a - 1, a}
              /\ \/ current_progress.current_package = "" /\ a = 0
                 \/ \E k \in {a, a + 1} \cap 1..n :
                       current_progress.current_package = th.package_ids[k]

\* a batch of pkgA, pkgB stopped after pkgA failed: completed is 1 of 2 and
\* current_package is still pkgA
C37_Witness ==
    /\ installation_thread # NoThread
    /\ TrackerOfHandle
    /\ Handle.state = "finished"
    /\ Handle.ending = "stopped"
    /\ Handle.package_ids = <<"pkgA", "pkgB">>
    /\ current_progress.total_packages = 2
    /\ current_progress.completed_packages = 1
    /\ current_progress.current_package = "pkgA"
    /\ current_progress.failed_installations = 1

\* C38: A raising callback ends the batch without leaking the guard. Once the
\* result callback or the progress callback has raised for a package, the thread
\* only ends (no step of it changes the foreground caller, no further package is
\* attempted), the tracker holds what was recorded so far, that package included,
\* the thread does end, and the next install_packages call passes the guard.
C38_RaisingCallbackEndsBatch ==
    /\ [](\A t \in Threads :
            threads[t].raised
            => /\ threads[t].state = "alive" => threads[t].pc = "critical"
               /\ threads[t].state = "finished"
                     => threads[t].ending = "critical" /\ ~is_installing
               /\ Len(threads[t].attempted) = Len(threads[t].produced)
               /\ (t = installation_thread /\ TrackerOfHandle)
                     => /\ current_progress.completed_packages = Len(threads[t].produced)
                        /\ \A j \in 1..Len(threads[t].produced) :
                              threads[t].package_ids[j] \in DOMAIN current_progress.results
                        /\ current_progress.results
                              [threads[t].package_ids[Len(threads[t].produced)]]
                              = threads[t].produced[Len(threads[t].produced)])
    /\ [][\A t \in Threads :
            /\ (threads[t].raised /\ threads[t].state = "alive" /\ threads'[t] # threads[t])
                  => /\ threads'[t].state = "finished"
                     /\ threads'[t].attempted = threads[t].attempted
                     /\ callers' = callers
                     /\ current_progress' = current_progress
            /\ (/\ threads[t].raised /\ threads[t].state = "finished"
                /\ t = installation_thread
                /\ callers[MainCaller].pc = "idle" /\ CallerStep(MainCaller))
                  => callers'[MainCaller].pc = "guarded" ]_vars
    /\ \A t \in Threads :
          (threads[t].raised /\ threads[t].state = "alive") ~> (threads[t].state # "alive")

\* the result callback raised for pkgA, the first of two packages; the thread has
\* ended and a new call has passed the guard
C38_Witness ==
    /\ installation_thread # NoThread
    /\ Handle.raised
    /\ Handle.state = "finished"
    /\ Handle.package_ids = <<"pkgA", "pkgB">>
    /\ Handle.attempted = <<"pkgA">>
    /\ Len(Handle.callbacks) = 1
    /\ DOMAIN current_progress.results = {"pkgA"}
    /\ callers[MainCaller].pc = "guarded"

\* C39: A rejected call changes nothing. The step in which install_packages raises
\* RuntimeError leaves the tracker, the thread handle and every thread as they
\* were and the caller has chosen no argument by then, so it holds for any list;
\* the running batch then goes its way: what it attempts is a prefix of its own
\* list on its own tracker, and the whole list when it ends normally.
C39_RejectedCallChangesNothing ==
    /\ [][ (callers'[MainCaller].last = "RuntimeError" /\ CallerStep(MainCaller))
              => /\ is_installing
                 /\ callers[MainCaller].args = NoneObj
                 /\ callers'[MainCaller].pc = "idle"
                 /\ current_progress' = current_progress
                 /\ installation_thread' = installation_thread
                 /\ threads' = threads ]_vars
    /\ [](callers[MainCaller].last = "RuntimeError"
            => /\ installation_thread # NoThread
               /\ Handle.state \in {"alive", "finished"}
               /\ Len(Handle.attempted) <= Len(Handle.package_ids)
               /\ Handle.attempted = SubSeq(Handle.package_ids, 1, Len(Handle.attempted))
               /\ current_progress.total_packages = Len(Handle.package_ids)
               /\ current_progress.completed_packages <= Len(Handle.attempted)
               /\ (Handle.state = "finished" /\ Handle.ending = "normal")
                     => /\ Handle.attempted = Handle.package_ids
                        /\ current_progress.completed_packages = Len(Handle.package_ids))

\* a call was rejected while a batch of two packages was running, and the batch has
\* ended normally with both packages attempted
C39_Witness ==
    /\ callers[MainCaller].last = "RuntimeError"
    /\ installation_thread # NoThread
    /\ Handle.state = "finished"
    /\ Handle.ending = "normal"
    /\ Handle.attempted = <<"pkgA", "pkgB">>
    /\ current_progress.completed_packages = 2

\* C40: Tracker binding. Under every interleaving of install_packages calls and
\* threads, what a thread records goes to the tracker made by the call that
\* launched it: the tracker the Installer holds never has more completed packages
\* than its total, and a running thread that has produced a result runs on a
\* tracker whose total is the length of that thread's own list.
C40_TrackerBinding ==
    current_progress # NoneObj
    => /\ current_progress.completed_packages <= current_progress.total_packages
       /\ \A t \in Threads :
             (threads[t].state = "alive" /\ Len(threads[t].produced) > 0)
                => current_progress.total_packages = Len(threads[t].package_ids)

====
